---- MODULE Spec2Model ----
(***************************************************************************)
(* OMML to LaTeX conversion (src/V3/omml_2_latex.py, DirectOmmlToLatex).   *)
(*                                                                         *)
(* A Python str is modelled as a sequence of characters, each character a  *)
(* one-character string; a non-ASCII character is named by its code point  *)
(* ("U+2260" is the not-equal glyph).  An lxml element is a record         *)
(* [tag, val, text, kids]: val is <<>> when the m:val attribute is absent  *)
(* and <<v>> when it is present, text is the joined m:t text of a run,     *)
(* kids are the child elements in document order.                          *)
(***************************************************************************)
EXTENDS Integers, Sequences, FiniteSets, TLC

VARIABLES elem, cur, ret, latex, text, prev, pc

vars == <<elem, cur, ret, latex, text, prev, pc>>

(***************************************************************************)
(* Characters and strings                                                  *)
(***************************************************************************)
Str(s) == [i \in 1..Len(s) |-> SubSeq(s, i, i)]

Lower == {"a", "b", "c", "d", "e", "f", "g", "h", "i", "j", "k", "l", "m",
          "n", "o", "p", "q", "r", "s", "t", "u", "v", "w", "x", "y", "z"}
Upper == {"A", "B", "C", "D", "E", "F", "G", "H", "I", "J", "K", "L", "M",
          "N", "O", "P", "Q", "R", "S", "T", "U", "V", "W", "X", "Y", "Z"}
Digit == {"0", "1", "2", "3", "4", "5", "6", "7", "8", "9"}
Letter == Lower \cup Upper
Alnum == Letter \cup Digit
WhiteSpace == {" ", "\t", "\n", "\r", "\f"}

\* the lower-case Greek letters of the class in parse_r's fourth pattern
GreekLower == {"U+03B1", "U+03B2", "U+03B3", "U+03B4", "U+03B5", "U+03B6",
               "U+03B7", "U+03B8", "U+03B9", "U+03BA", "U+03BB", "U+03BC",
               "U+03BD", "U+03BE", "U+03BF", "U+03C0", "U+03C1", "U+03C3",
               "U+03C4", "U+03C5", "U+03C6", "U+03C7", "U+03C8", "U+03C9"}

\* str.isalpha(): the ASCII letters and the non-ASCII letters in use
IsAlpha(c) == c \in Letter \cup GreekLower
                  \cup {"U+0393", "U+0394", "U+03A3", "U+03A9", "U+03D2", "U+2146"}

\* \w of the re module: letters, digits and the underscore
IsWord(c) == IsAlpha(c) \/ c \in Digit \/ c = "_"

MATH_SYMBOLS ==
    "U+2260" :> Str("\\neq") @@ "U+2264" :> Str("\\leq") @@ "U+2265" :> Str("\\geq") @@
    "U+00B1" :> Str("\\pm") @@ "U+00D7" :> Str("\\times") @@ "U+00F7" :> Str("\\div") @@
    "U+00B7" :> Str("\\cdot") @@ "U+2248" :> Str("\\approx") @@ "U+2261" :> Str("\\equiv") @@
    "U+223C" :> Str("\\sim") @@ "U+2208" :> Str("\\in") @@ "U+2209" :> Str("\\notin") @@
    "U+2282" :> Str("\\subset") @@ "U+2286" :> Str("\\subseteq") @@ "U+222A" :> Str("\\cup") @@
    "U+2229" :> Str("\\cap") @@ "U+2205" :> Str("\\emptyset") @@ "U+2227" :> Str("\\land") @@
    "U+2228" :> Str("\\lor") @@ "U+00AC" :> Str("\\neg") @@ "U+2200" :> Str("\\forall") @@
    "U+2203" :> Str("\\exists") @@ "U+2192" :> Str("\\rightarrow") @@ "U+2190" :> Str("\\leftarrow") @@
    "U+2194" :> Str("\\leftrightarrow") @@ "U+21D2" :> Str("\\Rightarrow") @@ "U+03B1" :> Str("\\alpha") @@
    "U+03B2" :> Str("\\beta") @@ "U+03B3" :> Str("\\gamma") @@ "U+03B4" :> Str("\\delta") @@
    "U+03B5" :> Str("\\epsilon") @@ "U+03B8" :> Str("\\theta") @@ "U+03BB" :> Str("\\lambda") @@
    "U+03BC" :> Str("\\mu") @@ "U+03C0" :> Str("\\pi") @@ "U+03C3" :> Str("\\sigma") @@
    "U+03C4" :> Str("\\tau") @@ "U+03C6" :> Str("\\phi") @@ "U+03C8" :> Str("\\psi") @@
    "U+03C9" :> Str("\\omega") @@ "U+0393" :> Str("\\Gamma") @@ "U+0394" :> Str("\\Delta") @@
    "U+03A3" :> Str("\\Sigma") @@ "U+03A9" :> Str("\\Omega") @@ "U+2202" :> Str("\\partial") @@
    "U+2207" :> Str("\\nabla") @@ "U+2211" :> Str("\\sum") @@ "U+220F" :> Str("\\prod") @@
    "U+222B" :> Str("\\int") @@ "U+221E" :> Str("\\infty") @@ "U+221A" :> Str("\\sqrt") @@
    "U+2220" :> Str("\\angle") @@ "U+22A5" :> Str("\\perp") @@ "U+2225" :> Str("\\parallel") @@
    "U+2026" :> Str("\\ldots") @@ "U+2234" :> Str("\\therefore") @@ "U+2235" :> Str("\\because") @@
    "U+00B0" :> Str("^\\circ") @@ "U+03C5" :> Str("\\upsilon") @@ "U+03D2" :> Str("\\Upsilon") @@
    "U+2146" :> Str("\\, d") @@ "U+2213" :> Str("\\mp")

\* in the order of the dictionary, which is the order of substitution
FUNCTION_NAMES ==
    <<<<Str("sin"), Str("\\sin")>>, <<Str("cos"), Str("\\cos")>>, <<Str("tan"), Str("\\tan")>>,
      <<Str("sec"), Str("\\sec")>>, <<Str("csc"), Str("\\csc")>>, <<Str("cot"), Str("\\cot")>>,
      <<Str("arcsin"), Str("\\arcsin")>>, <<Str("arccos"), Str("\\arccos")>>, <<Str("sinh"), Str("\\sinh")>>,
      <<Str("cosh"), Str("\\cosh")>>, <<Str("tanh"), Str("\\tanh")>>, <<Str("log"), Str("\\log")>>,
      <<Str("ln"), Str("\\ln")>>, <<Str("exp"), Str("\\exp")>>, <<Str("lim"), Str("\\lim")>>,
      <<Str("sup"), Str("\\sup")>>, <<Str("inf"), Str("\\inf")>>, <<Str("min"), Str("\\min")>>,
      <<Str("max"), Str("\\max")>>, <<Str("det"), Str("\\det")>>, <<Str("dim"), Str("\\dim")>>>>

(***************************************************************************)
(* str and re primitives                                                   *)
(***************************************************************************)
Max(S) == CHOOSE m \in S : \A x \in S : x <= m
Min(S) == CHOOSE m \in S : \A x \in S : m <= x

\* the literal lit occurs in s at position i
At(s, i, lit) ==
    /\ i >= 1
    /\ i + Len(lit) - 1 <= Len(s)
    /\ SubSeq(s, i, i + Len(lit) - 1) = lit

\* lit in s
Contains(s, lit) == \E i \in 1..(Len(s) + 1) : At(s, i, lit)

\* s.startswith(lit)
StartsWith(s, lit) == At(s, 1, lit)

\* s.count(lit) for a literal that cannot overlap itself
Count(s, lit) == Cardinality({i \in 1..Len(s) : At(s, i, lit)})

\* the length of the longest run of characters satisfying In from position i
Span(s, i, In(_)) ==
    IF i > Len(s) THEN 0
    ELSE Max({k \in 0..(Len(s) + 1 - i) : \A j \in i..(i + k - 1) : In(s[j])})

\* s.strip()
Strip(s) ==
    LET keep == {i \in 1..Len(s) : s[i] \notin WhiteSpace}
    IN  IF keep = {} THEN <<>> ELSE SubSeq(s, Min(keep), Max(keep))

\* a local variable: Body applied to the value of v, computed once
Let(v, Body(_)) == CHOOSE r \in {Body(x) : x \in {v}} : TRUE

\* re.sub: scan from the left; where the pattern matches (MLen > 0 characters)
\* emit the replacement and continue after the match, else copy one character.
\* go[i] is the output for s[i:]: the text up to the next match is copied.
ReSub(s, MLen(_, _), Rep(_, _, _)) ==
    Let({i \in 1..Len(s) : MLen(s, i) > 0},
        LAMBDA starts :
            LET go[i \in 1..(Len(s) + 1)] ==
                    IF \A c \in starts : c < i THEN SubSeq(s, i, Len(s))
                    ELSE Let(Min({c \in starts : c >= i}),
                             LAMBDA c : SubSeq(s, i, c - 1)
                                            \o Rep(s, c, MLen(s, c))
                                            \o go[c + MLen(s, c)])
            IN  go[1])

\* s.replace(c, lit) for a single character c
Replace(s, c, lit) ==
    LET mlen(t, i) == IF t[i] = c THEN 1 ELSE 0
        rep(t, i, n) == lit
    IN  ReSub(s, mlen, rep)

\* re.sub(r'(cmd1|cmd2|..)(class)', r'\1 \2', s): a space between a command
\* and the character that follows it
InsertSpace(s, cmds, In(_)) ==
    LET hit(t, i, c) == At(t, i, c) /\ i + Len(c) <= Len(t) /\ In(t[i + Len(c)])
        mlen(t, i) == IF \E c \in cmds : hit(t, i, c)
                      THEN Len(CHOOSE c \in cmds : hit(t, i, c)) + 1
                      ELSE 0
        rep(t, i, n) == SubSeq(t, i, i + n - 2) \o <<" ", t[i + n - 1]>>
    IN  ReSub(s, mlen, rep)

\* successive assignments  s = Step(1, s); s = Step(2, s); ..; s = Step(K, s),
\* each value computed before the next statement uses it; run(x, lo, hi) is
\* the value of s after the statements lo..hi started with s = x
Pipe(s, K, Step(_, _)) ==
    LET RECURSIVE run(_, _, _)
        run(x, lo, hi) ==
            IF lo = hi THEN Step(lo, x)
            ELSE Let(run(x, lo, (lo + hi) \div 2),
                     LAMBDA y : run(y, (lo + hi) \div 2 + 1, hi))
    IN  Let(s, LAMBDA x : run(x, 1, K))

(***************************************************************************)
(* Output normalizer: clean_output                                         *)
(***************************************************************************)
\* any(cmd in latex for cmd in ['\\binom', '\\left', '\\right', '\\begin'])
HasComplexMarker(s) ==
    \E cmd \in {Str("\\binom"), Str("\\left"), Str("\\right"), Str("\\begin")} :
        Contains(s, cmd)

\* re.sub(r'\s+_', '_', s) and re.sub(r'\s+\^', '^', s), marker being _ or ^
StripSpaceBefore(s, marker) ==
    LET ws(c) == c \in WhiteSpace
        mlen(t, i) == LET k == Span(t, i, ws)
                      IN  IF k >= 1 /\ i + k <= Len(t) /\ t[i + k] = marker
                          THEN k + 1 ELSE 0
        rep(t, i, n) == <<marker>>
    IN  ReSub(s, mlen, rep)

\* re.sub(r'(\\partial)([a-zA-Z])', r'\1 \2', s)
FixPartial(s) == InsertSpace(s, {Str("\\partial")}, LAMBDA c : c \in Letter)

\* re.sub(r'\\frac([a-zA-Z0-9])\{', r'\\frac{\1}{', s)
FixFracBraces(s) ==
    LET mlen(t, i) == IF /\ At(t, i, Str("\\frac"))
                         /\ i + 6 <= Len(t)
                         /\ t[i + 5] \in Alnum
                         /\ t[i + 6] = "{"
                      THEN 7 ELSE 0
        rep(t, i, n) == Str("\\frac{") \o <<t[i + 5]>> \o Str("}{")
    IN  ReSub(s, mlen, rep)

\* the same scan leaving every brace group {c} in place
StripSingleBraces_keep(s) ==
    LET mlen(t, i) == IF /\ i + 2 <= Len(t)
                         /\ t[i] = "{"
                         /\ t[i + 1] \in Alnum
                         /\ t[i + 2] = "}"
                      THEN 3 ELSE 0
        rep(t, i, n) == <<"{", t[i + 1], "}">>
    IN  ReSub(s, mlen, rep)

\* re.sub(r'(?<!\\[a-zA-Z])\{([a-zA-Z0-9])\}', r'\1', s): the look-behind
\* rejects a brace group only when a backslash and ONE letter precede it
StripSingleBraces(s) ==
    LET mlen(t, i) == IF /\ i + 2 <= Len(t)
                         /\ t[i] = "{"
                         /\ t[i + 1] \in Alnum
                         /\ t[i + 2] = "}"
                         /\ ~(i >= 3 /\ t[i - 2] = "\\" /\ t[i - 1] \in Letter)
                      THEN 3 ELSE 0
        rep(t, i, n) == <<t[i + 1]>>
    IN  ReSub(s, mlen, rep)

\* re.sub(r'\{\{([^}]+)\}\}', r'{\1}', s)
CollapseDoubleBraces(s) ==
    LET notClose(c) == c # "}"
        mlen(t, i) == IF At(t, i, Str("{{"))
                      THEN LET k == Span(t, i + 2, notClose)
                           IN  IF k >= 1 /\ At(t, i + 2 + k, Str("}}"))
                               THEN k + 4 ELSE 0
                      ELSE 0
        rep(t, i, n) == <<"{">> \o SubSeq(t, i + 2, i + n - 3) \o <<"}">>
    IN  ReSub(s, mlen, rep)

clean_output(s) ==
    LET minimal(n, t) == CASE n = 1 -> StripSpaceBefore(t, "_")
                           [] n = 2 -> StripSpaceBefore(t, "^")
                           [] n = 3 -> FixPartial(t)
                           [] n = 4 -> FixFracBraces(t)
        regular(n, t) == CASE n = 1 -> StripSingleBraces(t)
                           [] n = 2 -> CollapseDoubleBraces(t)
                           [] OTHER -> minimal(n - 2, t)
    IN  Let(s, LAMBDA t : IF HasComplexMarker(t) THEN Pipe(t, 4, minimal)
                          ELSE Pipe(t, 6, regular))

(***************************************************************************)
(* Output normalizer: apply_post_processing                                *)
(***************************************************************************)
\* re.sub(r'\\binom([a-zA-Z])([a-zA-Z])', r'\\binom{\1}{\2}', s)
BinomBraces(s) ==
    LET mlen(t, i) == IF /\ At(t, i, Str("\\binom"))
                         /\ i + 7 <= Len(t)
                         /\ t[i + 6] \in Letter
                         /\ t[i + 7] \in Letter
                      THEN 8 ELSE 0
        rep(t, i, n) == Str("\\binom{") \o <<t[i + 6]>> \o Str("}{")
                            \o <<t[i + 7]>> \o Str("}")
    IN  ReSub(s, mlen, rep)

\* re.sub(r'(e\^{[^}]+}[a-z]+)(.*?)\1', r'\1\2', s): group 1 is e^{..} and a
\* run of lower-case letters, the longest run for which the group occurs
\* again; group 2 is the shortest gap (without a newline) before it does
DropRepeatedExp(s) ==
    LET notClose(c) == c # "}"
        lower(c) == c \in Lower
        head(t, i) == 4 + Span(t, i + 3, notClose)  \* length of e^{..}
        again(t, i, k, g) ==
            /\ At(t, i + k + g, SubSeq(t, i, i + k - 1))
            /\ \A j \in (i + k)..(i + k + g - 1) : t[j] # "\n"
        runs(t, i) ==
            {l \in 1..Span(t, i + head(t, i), lower) :
                \E g \in 0..Len(t) : again(t, i, head(t, i) + l, g)}
        mlen(t, i) ==
            IF /\ At(t, i, Str("e^{"))
               /\ head(t, i) >= 5
               /\ At(t, i + head(t, i) - 1, Str("}"))
               /\ runs(t, i) # {}
            THEN LET k == head(t, i) + Max(runs(t, i))
                 IN  2 * k + Min({g \in 0..Len(t) : again(t, i, k, g)})
            ELSE 0
        rep(t, i, n) ==
            LET k == head(t, i) + Max(runs(t, i))
            IN  SubSeq(t, i, i + n - k - 1)
    IN  ReSub(s, mlen, rep)

\* re.sub(r'([a-zA-Z]+)\\left\(([^)]+)\\right\)\1', r'\1\\left(\2\\right)', s)
DropRepeatedName(s) ==
    LET letter(c) == c \in Letter
        notParen(c) == c # ")"
        k1(t, i) == Span(t, i, letter)
        \* position of the first ")" after \left(
        q(t, i) == i + k1(t, i) + 6 + Span(t, i + k1(t, i) + 6, notParen)
        mlen(t, i) ==
            IF /\ k1(t, i) >= 1
               /\ At(t, i + k1(t, i), Str("\\left("))
               /\ q(t, i) <= Len(t)
               /\ q(t, i) - 6 >= i + k1(t, i) + 7
               /\ At(t, q(t, i) - 6, Str("\\right)"))
               /\ At(t, q(t, i) + 1, SubSeq(t, i, i + k1(t, i) - 1))
            THEN q(t, i) + k1(t, i) - i + 1
            ELSE 0
        rep(t, i, n) == SubSeq(t, i, q(t, i))
    IN  ReSub(s, mlen, rep)

\* re.sub(r'\\rightarrow([A-Z][a-z])', r'\\rightarrow \1', s)
FixRightarrow(s) ==
    LET cmd == Str("\\rightarrow")
        mlen(t, i) == IF /\ At(t, i, cmd)
                         /\ i + Len(cmd) + 1 <= Len(t)
                         /\ t[i + Len(cmd)] \in Upper
                         /\ t[i + Len(cmd) + 1] \in Lower
                      THEN Len(cmd) + 2 ELSE 0
        rep(t, i, n) == cmd \o <<" ", t[i + n - 2], t[i + n - 1]>>
    IN  ReSub(s, mlen, rep)

\* re.sub(r'(\\lim[^}]*})\s*\\lim\s', r'\1 ', s)
DropRepeatedLim(s) ==
    LET notClose(c) == c # "}"
        ws(c) == c \in WhiteSpace
        k(t, i) == Span(t, i + 4, notClose)
        w(t, i) == Span(t, i + 5 + k(t, i), ws)
        mlen(t, i) ==
            IF /\ At(t, i, Str("\\lim"))
               /\ At(t, i + 4 + k(t, i), Str("}"))
               /\ At(t, i + 5 + k(t, i) + w(t, i), Str("\\lim"))
               /\ i + 9 + k(t, i) + w(t, i) <= Len(t)
               /\ t[i + 9 + k(t, i) + w(t, i)] \in WhiteSpace
            THEN 10 + k(t, i) + w(t, i)
            ELSE 0
        rep(t, i, n) == SubSeq(t, i, i + 4 + k(t, i)) \o <<" ">>
    IN  ReSub(s, mlen, rep)

\* the string as it is, no binomial unwrapped
UnwrapBinom_skipped(s) == s

\* re.sub(r'\\left\(\\binom\{([^}]+)\}\{([^}]+)\}\\right\)', r'\\binom{\1}{\2}', s)
UnwrapBinom(s) ==
    LET notClose(c) == c # "}"
        open == Str("\\left(\\binom{")
        a(t, i) == Span(t, i + Len(open), notClose)
        b(t, i) == Span(t, i + Len(open) + a(t, i) + 2, notClose)
        mlen(t, i) ==
            IF /\ At(t, i, open)
               /\ a(t, i) >= 1
               /\ At(t, i + Len(open) + a(t, i), Str("}{"))
               /\ b(t, i) >= 1
               /\ At(t, i + Len(open) + a(t, i) + 2 + b(t, i), Str("}\\right)"))
            THEN Len(open) + a(t, i) + 2 + b(t, i) + 8
            ELSE 0
        rep(t, i, n) == SubSeq(t, i + 6, i + n - 8)
    IN  ReSub(s, mlen, rep)

apply_post_processing(s) ==
    LET letter(c) == c \in Letter
        digit(c) == c \in Digit
        step(n, t) ==
            CASE n = 1  -> BinomBraces(t)
              [] n = 2  -> DropRepeatedExp(t)
              [] n = 3  -> DropRepeatedName(t)
              [] n = 4  -> InsertSpace(t, {Str("\\partial")}, letter)
              [] n = 5  -> InsertSpace(t, {Str("\\upsilon")}, letter)
              [] n = 6  -> InsertSpace(t, {Str("\\gamma")}, letter)
              [] n = 7  -> FixRightarrow(t)
              [] n = 8  -> Replace(t, "U+22C5", Str("\\cdot"))
              [] n = 9  -> DropRepeatedLim(t)
              [] n = 10 -> InsertSpace(t, {Str("\\exists"), Str("\\forall")}, letter)
              [] n = 11 -> UnwrapBinom(t)
              [] n = 12 -> InsertSpace(t, {Str("\\cdot")}, letter)
              [] n = 13 -> InsertSpace(t, {Str("\\approx"), Str("\\equiv"), Str("\\sim")}, digit)
              [] n = 14 -> InsertSpace(t, {Str("\\cdot")}, letter)
    IN  Pipe(s, 14, step)

\* the normalization pass of parse_oMath: clean_output, then post-processing
Normalize(s) ==
    Pipe(s, 2, LAMBDA n, t : IF n = 1 THEN clean_output(t)
                             ELSE apply_post_processing(t))

(***************************************************************************)
(* Symbol and function substitution, text runs                             *)
(***************************************************************************)
\* the text appended for the glyph at position i: its command, and a space
\* when the command starts with a backslash and a letter follows
SymbolAt(t, i) ==
    LET cmd == MATH_SYMBOLS[t[i]]
    IN  IF i + 1 <= Len(t) /\ StartsWith(cmd, Str("\\")) /\ IsAlpha(t[i + 1])
        THEN cmd \o <<" ">>
        ELSE cmd

smart_symbol_convert(s) ==
    LET mlen(t, i) == IF t[i] \in DOMAIN MATH_SYMBOLS THEN 1 ELSE 0
        rep(t, i, n) == SymbolAt(t, i)
    IN  ReSub(s, mlen, rep)

\* re.sub(r'\b' + re.escape(func) + r'(?=\s|\(|$)', lambda m: latex_func, s)
SubFunctionName(s, func, latex_func) ==
    LET mlen(t, i) ==
            IF /\ At(t, i, func)
               /\ (i = 1 \/ ~IsWord(t[i - 1]))
               /\ \/ i + Len(func) > Len(t)
                  \/ t[i + Len(func)] \in WhiteSpace \cup {"("}
            THEN Len(func) ELSE 0
        rep(t, i, n) == latex_func
    IN  ReSub(s, mlen, rep)

convert_function_names(s) ==
    LET step(n, t) == SubFunctionName(t, FUNCTION_NAMES[n][1], FUNCTION_NAMES[n][2])
    IN  Let(s, LAMBDA t : IF StartsWith(t, Str("\\")) THEN t
                          ELSE Pipe(t, Len(FUNCTION_NAMES), step))

\* re.sub(r'([a-z])D([a-z])D', r'\1 \, d\2 \, d', s) with D the differential
\* glyph (then no boundary is asked for) or the letter d followed by \b
FixDoubleDifferential(s, D, boundary) ==
    LET mlen(t, i) ==
            IF /\ i + 3 <= Len(t)
               /\ t[i] \in Lower /\ t[i + 1] = D
               /\ t[i + 2] \in Lower /\ t[i + 3] = D
               /\ boundary => (i + 4 > Len(t) \/ ~IsWord(t[i + 4]))
            THEN 4 ELSE 0
        rep(t, i, n) == <<t[i]>> \o Str(" \\, d") \o <<t[i + 2]>> \o Str(" \\, d")
    IN  ReSub(s, mlen, rep)

\* re.sub(r'([a-z])D', r'\1 \, d', s) with D the differential glyph, and
\* re.sub(r'([a-z])d([greek])', r'\1 \, d\2', s) with D the letter d
FixDifferential(s, D, Next) ==
    LET k == IF Next = {} THEN 2 ELSE 3
        mlen(t, i) ==
            IF /\ i + k - 1 <= Len(t)
               /\ t[i] \in Lower /\ t[i + 1] = D
               /\ Next # {} => t[i + 2] \in Next
            THEN k ELSE 0
        rep(t, i, n) == <<t[i]>> \o Str(" \\, d") \o SubSeq(t, i + 2, i + n - 1)
    IN  ReSub(s, mlen, rep)

\* parse_r up to the symbol conversion: minus sign and differentials
RunPrepare(s) ==
    LET step(n, t) ==
            CASE n = 1 -> Replace(t, "U+2212", <<"-">>)
              [] n = 2 -> FixDoubleDifferential(t, "U+2146", FALSE)
              [] n = 3 -> FixDifferential(t, "U+2146", {})
              [] n = 4 -> FixDoubleDifferential(t, "d", TRUE)
              [] n = 5 -> FixDifferential(t, "d", GreekLower)
    IN  Pipe(s, 5, step)

\* re.sub(r'(\\gamma|\\alpha|\\beta|\\delta|\\theta|\\sigma)([a-z])', r'\1 \2', s)
GreekSpacing(s) ==
    InsertSpace(s, {Str("\\gamma"), Str("\\alpha"), Str("\\beta"),
                    Str("\\delta"), Str("\\theta"), Str("\\sigma")},
                LAMBDA c : c \in Lower)

\* parse_r on the joined text of the run's m:t descendants
parse_r(el) ==
    LET step(n, t) ==
            CASE n = 1 -> RunPrepare(t)
              [] n = 2 -> smart_symbol_convert(t)
              [] n = 3 -> GreekSpacing(t)
              [] n = 4 -> convert_function_names(t)
    IN  Pipe(el.text, 4, step)

(***************************************************************************)
(* Elements (lxml) and the searches the handlers make                      *)
(***************************************************************************)
\* an element with children
El(tag, kids) == [tag |-> tag, val |-> <<>>, text |-> <<>>, kids |-> kids]

\* a property element carrying an m:val attribute, such as m:begChr
Pr(tag, v) == [tag |-> tag, val |-> <<v>>, text |-> <<>>, kids |-> <<>>]

\* a run m:r; text is ''.join(elem.xpath('.//m:t/text()'))
R(t) == [tag |-> "r", val |-> <<>>, text |-> t, kids |-> <<>>]

\* tag.endswith(suffix)
TagEndsWith(tag, suffix) ==
    /\ Len(tag) >= Len(suffix)
    /\ SubSeq(tag, Len(tag) - Len(suffix) + 1, Len(tag)) = suffix

\* sep.join(parts)
Join(parts, sep) ==
    LET go[n \in 0..Len(parts)] ==
            IF n = 0 THEN <<>>
            ELSE IF n = 1 THEN parts[1]
            ELSE go[n - 1] \o sep \o parts[n]
    IN  go[Len(parts)]

\* the descendants of el in document order, each with its parent's tag
RECURSIVE Descendants(_)
Descendants(el) ==
    LET go[n \in 0..Len(el.kids)] ==
            IF n = 0 THEN <<>>
            ELSE go[n - 1] \o <<[el |-> el.kids[n], par |-> el.tag]>>
                           \o Descendants(el.kids[n])
    IN  go[Len(el.kids)]

\* the first element of a list of hits as <<e>>, <<>> for None
First(hits) == IF hits = <<>> THEN <<>> ELSE <<hits[1]>>

\* elem.find('m:tag'): the first child with that tag
Find(el, tag) == First(SelectSeq(el.kids, LAMBDA k : k.tag = tag))

\* the first descendant with that tag in document order, at any depth, with
\* its parent's tag: <<[el, par]>>, <<>> when there is none
FirstDesc(el, tag) ==
    First(SelectSeq(Descendants(el), LAMBDA d : d.el.tag = tag))

\* elem.find('.//m:tag')
FindDesc(el, tag) ==
    Let(FirstDesc(el, tag),
        LAMBDA hit : IF hit = <<>> THEN <<>> ELSE <<hit[1].el>>)

\* elem.find('.//m:parent/m:tag'): the first descendant with that tag whose
\* parent has the tag parent
FindPath(el, parent, tag) ==
    Let(SelectSeq(Descendants(el), LAMBDA d : d.el.tag = tag /\ d.par = parent),
        LAMBDA hits : IF hits = <<>> THEN <<>> ELSE <<hits[1].el>>)

\* found.get('{m}val', default) for a found element <<e>>
GetVal(found, default) ==
    IF found[1].val = <<>> THEN default ELSE found[1].val[1]

(***************************************************************************)
(* Node converter: one operator per handler                                *)
(***************************************************************************)
RECURSIVE parse(_, _)

\* self.parse(x) if x is not None else '' for a found element <<x>>, whose
\* parent is par
ParseFound(found, par) == IF found = <<>> THEN <<>> ELSE parse(found[1], par)

\* the results of parsing the children, concatenated in child order
parse_default(el) ==
    LET go[n \in 0..Len(el.kids)] ==
            IF n = 0 THEN <<>> ELSE go[n - 1] \o parse(el.kids[n], el.tag)
    IN  go[Len(el.kids)]

parse_e(el) == parse_default(el)

parse_oMathPara(el) == parse_default(el)

\* parse_oMath before cleaning: ''.join(self.parse(child) for child in elem)
ComposeChildren(el) == parse_default(el)

parse_oMath(el) == Normalize(ComposeChildren(el))

\* the binomial test of parse_f; parentTag is elem.getparent().tag
IsBinomial(num, den, parentTag) ==
    /\ Len(num) = 1 /\ Len(den) = 1
    /\ IsAlpha(num[1]) /\ IsAlpha(den[1])
    /\ \/ num = Str("n") /\ den = Str("k")
       \/ TagEndsWith(parentTag, "d")

\* the m:num and m:den elements parse_f converts
NumOf(el) == FindDesc(el, "num")

DenOf(el) == FindDesc(el, "den")

parse_f(el, parentTag) ==
    Let(<<Strip(ParseFound(NumOf(el), el.tag)), Strip(ParseFound(DenOf(el), el.tag))>>,
        LAMBDA got :
            LET num == got[1]
                den == got[2]
            IN  IF /\ num \in {Str("1"), Str("2"), Str("3")}
                   /\ den \in {Str("2"), Str("3"), Str("4")}
                THEN Str("\\frac{") \o num \o Str("}{") \o den \o Str("}")
                ELSE IF IsBinomial(num, den, parentTag)
                THEN Str("\\binom{") \o num \o Str("}{") \o den \o Str("}")
                ELSE Str("\\frac{") \o num \o Str("}{") \o den \o Str("}"))

\* the duplication guard of parse_sSup on the converted base
DedupBase(base) ==
    IF StartsWith(base, Str("\\left[")) /\ Count(base, Str("\\int")) > 2
    THEN LET cut == {i \in 1..Len(base) : At(base, i, Str("\\int"))}
             \* '\\int'.join(parts[:3]): the text before the third \int
             third == Min({i \in cut : Cardinality({j \in cut : j < i}) = 2})
         IN  Str("\\left[") \o SubSeq(base, 1, third - 1) \o Str("\\right]")
    ELSE base

parse_sSup(el) ==
    Let(<<ParseFound(Find(el, "e"), el.tag), ParseFound(Find(el, "sup"), el.tag)>>,
        LAMBDA got :
            Let(DedupBase(got[1]),
                LAMBDA base :
                    (IF HasComplexMarker(base) THEN base ELSE clean_output(base))
                        \o Str("^{") \o got[2] \o Str("}")))

parse_sSub(el) ==
    Let(<<ParseFound(Find(el, "e"), el.tag), ParseFound(Find(el, "sub"), el.tag)>>,
        LAMBDA got : clean_output(got[1]) \o Str("_{") \o got[2] \o Str("}"))

parse_sSubSup(el) ==
    Let(<<ParseFound(Find(el, "e"), el.tag), ParseFound(Find(el, "sub"), el.tag),
          ParseFound(Find(el, "sup"), el.tag)>>,
        LAMBDA got : clean_output(got[1]) \o Str("_{") \o got[2]
                         \o Str("}^{") \o got[3] \o Str("}"))

parse_nary(el) ==
    LET chr_elem == FindPath(el, "naryPr", "chr")
        op_val   == IF chr_elem = <<>> THEN <<"U+222B">>
                    ELSE GetVal(chr_elem, <<"U+222B">>)
        sub_elem == Find(el, "sub")
        sup_elem == Find(el, "sup")
        expr_elem == Find(el, "e")
    IN  smart_symbol_convert(op_val)
        \o (IF sub_elem = <<>> THEN <<>>
            ELSE Str("_{") \o parse(sub_elem[1], el.tag) \o Str("}"))
        \o (IF sup_elem = <<>> THEN <<>>
            ELSE Str("^{") \o parse(sup_elem[1], el.tag) \o Str("}"))
        \o (IF expr_elem = <<>> THEN <<>>
            ELSE <<" ">> \o parse(expr_elem[1], el.tag))

\* the m:degHide element parse_rad looks at
DegHideOf(el) == FindDesc(el, "degHide")

parse_rad(el) ==
    Let(<<ParseFound(Find(el, "e"), el.tag), DegHideOf(el), Find(el, "deg")>>,
        LAMBDA got :
            LET expr     == got[1]
                deg_hide == got[2]
                deg_elem == got[3]
            IN  IF deg_hide # <<>> /\ deg_hide[1].val = <<Str("1")>>
                THEN Str("\\sqrt{") \o expr \o Str("}")
                ELSE IF deg_elem = <<>>
                THEN Str("\\sqrt{") \o expr \o Str("}")
                ELSE Let(parse(deg_elem[1], el.tag),
                         LAMBDA deg_text :
                             IF Strip(deg_text) # <<>>
                             THEN Str("\\sqrt[") \o deg_text \o Str("]{")
                                      \o expr \o Str("}")
                             ELSE Str("\\sqrt{") \o expr \o Str("}")))

\* the converted non-empty cells of a row m:mr, in order
RowCells(row) ==
    LET go[n \in 0..Len(row.kids)] ==
            IF n = 0 THEN <<>>
            ELSE IF ~TagEndsWith(row.kids[n].tag, "e") THEN go[n - 1]
            ELSE Let(parse(row.kids[n], row.tag),
                     LAMBDA cell_content :
                         IF cell_content = <<>> THEN go[n - 1]
                         ELSE Append(go[n - 1], cell_content))
    IN  go[Len(row.kids)]

parse_matrix(el, matrix_type) ==
    LET go[n \in 0..Len(el.kids)] ==
            IF n = 0 THEN <<>>
            ELSE IF ~TagEndsWith(el.kids[n].tag, "mr") THEN go[n - 1]
            ELSE Let(RowCells(el.kids[n]),
                     LAMBDA cols :
                         IF cols = <<>> THEN go[n - 1]
                         ELSE Append(go[n - 1], Join(cols, Str(" & "))))
    IN  Let(go[Len(el.kids)],
            LAMBDA rows :
                IF rows = <<>> THEN <<>>
                ELSE Str("\\begin{") \o matrix_type \o Str("} ")
                         \o Join(rows, Str(" \\\\ "))
                         \o Str(" \\end{") \o matrix_type \o Str("}"))

parse_m(el) == parse_matrix(el, Str("matrix"))

\* the opening and closing characters parse_d resolves
BegChrOf(el) == FindDesc(el, "begChr")

EndChrOf(el) == FindDesc(el, "endChr")

OpenOf(el) ==
    Let(BegChrOf(el),
        LAMBDA beg_chr : IF beg_chr = <<>> THEN Str("(") ELSE GetVal(beg_chr, Str("(")))

CloseOf(el) ==
    Let(EndChrOf(el),
        LAMBDA end_chr : IF end_chr = <<>> THEN Str(")") ELSE GetVal(end_chr, Str(")")))

\* the environment parse_d selects for a matrix operand
MatrixType(open_d) ==
    IF open_d = Str("[") THEN Str("bmatrix")
    ELSE IF open_d = Str("{") THEN Str("Bmatrix")
    ELSE IF open_d = Str("|") THEN Str("vmatrix")
    ELSE Str("pmatrix")

\* the first grandchild of parse_d's loop that is a matrix or an equation
\* array, <<>> when the loop finds none
SpecialOperand(first_e) ==
    First(SelectSeq(first_e.kids,
                    LAMBDA g : TagEndsWith(g.tag, "m") \/ TagEndsWith(g.tag, "eqArr")))

\* the delimiters of parse_d around the converted operand
Delimited(open_d, inner, close_d) ==
    IF open_d = Str("(") /\ close_d = Str(")")
    THEN Str("\\left(") \o inner \o Str("\\right)")
    ELSE IF open_d = Str("[") /\ close_d = Str("]")
    THEN Str("\\left[") \o inner \o Str("\\right]")
    ELSE IF open_d = Str("{") /\ close_d = Str("}")
    THEN Str("\\left\\{") \o inner \o Str("\\right\\}")
    ELSE IF open_d = Str("|") /\ close_d = Str("|")
    THEN Str("\\left|") \o inner \o Str("\\right|")
    ELSE open_d \o inner \o close_d

parse_d(el) ==
    Let(<<OpenOf(el), CloseOf(el),
          SelectSeq(el.kids, LAMBDA k : TagEndsWith(k.tag, "e"))>>,
        LAMBDA got :
            LET open_d     == got[1]
                close_d    == got[2]
                e_children == got[3]
                first_e    == e_children[1]
                special    == SpecialOperand(first_e)
            IN  IF e_children = <<>> THEN <<>>
                ELSE IF special # <<>> /\ TagEndsWith(special[1].tag, "m")
                THEN parse_matrix(special[1], MatrixType(open_d))
                ELSE IF special # <<>>
                THEN IF open_d = Str("{") /\ close_d = <<>>
                     THEN Str("\\begin{cases} ") \o parse(special[1], first_e.tag)
                              \o Str(" \\end{cases}")
                     ELSE parse(special[1], first_e.tag)
                ELSE Let(parse(first_e, el.tag),
                         LAMBDA inner : Delimited(open_d, inner, close_d)))

\* str.lower() on the ASCII letters
LowerCase(s) ==
    LET up == Str("ABCDEFGHIJKLMNOPQRSTUVWXYZ")
        lo == Str("abcdefghijklmnopqrstuvwxyz")
    IN  [i \in 1..Len(s) |->
            IF s[i] \in Upper
            THEN lo[CHOOSE n \in 1..Len(up) : up[n] = s[i]]
            ELSE s[i]]

\* the handler with every argument in parentheses, that of a limit included
parse_func_parenthesised(el) ==
    Let(<<Find(el, "fName"), ParseFound(Find(el, "fName"), el.tag),
          ParseFound(Find(el, "e"), el.tag)>>,
        LAMBDA got :
            LET fname_elem == got[1]
                fname0     == got[2]
                arg        == got[3]
            IN  IF fname_elem # <<>> /\ FindDesc(fname_elem[1], "limLow") # <<>>
                THEN IF arg # <<>> /\ ~Contains(arg, Str("\\lim"))
                     THEN fname0 \o <<" ">> \o arg
                     ELSE fname0
                ELSE Let(IF fname0 # <<>> /\ ~StartsWith(fname0, Str("\\"))
                         THEN convert_function_names(fname0) ELSE fname0,
                         LAMBDA fname :
                             IF fname # <<>> /\ arg # <<>>
                             THEN fname \o Str("(") \o arg \o Str(")")
                             ELSE IF fname # <<>> THEN fname
                             ELSE arg))

parse_func(el) ==
    Let(<<Find(el, "fName"), ParseFound(Find(el, "fName"), el.tag),
          ParseFound(Find(el, "e"), el.tag)>>,
        LAMBDA got :
            LET fname_elem == got[1]
                fname0     == got[2]
                arg        == got[3]
            IN  IF fname_elem # <<>> /\ FindDesc(fname_elem[1], "limLow") # <<>>
                THEN IF arg # <<>> /\ ~Contains(arg, Str("\\lim"))
                     THEN fname0 \o <<" ">> \o arg
                     ELSE fname0
                ELSE Let(IF fname0 # <<>> /\ ~StartsWith(fname0, Str("\\"))
                         THEN convert_function_names(fname0) ELSE fname0,
                         LAMBDA fname :
                             IF fname # <<>> /\ Contains(LowerCase(fname), Str("lim"))
                             THEN IF arg # <<>> THEN fname \o <<" ">> \o arg ELSE fname
                             ELSE IF fname # <<>> /\ arg # <<>>
                             THEN fname \o Str("(") \o arg \o Str(")")
                             ELSE IF fname # <<>> THEN fname
                             ELSE arg))

parse_limLow(el) ==
    Let(<<ParseFound(Find(el, "e"), el.tag), ParseFound(Find(el, "lim"), el.tag)>>,
        LAMBDA got :
            LET base0 == got[1]
                lim   == got[2]
                base  == IF base0 = Str("lim") THEN Str("\\lim")
                         ELSE IF ~StartsWith(base0, Str("\\"))
                         THEN convert_function_names(base0)
                         ELSE base0
            IN  base \o Str("_{") \o lim \o Str("}"))

\* accent_map.get(acc_val, 'hat')
AccentOf(acc_val) ==
    IF acc_val = <<"U+0303">> THEN Str("tilde")
    ELSE IF acc_val = <<"U+0304">> THEN Str("bar")
    ELSE IF acc_val = <<"U+0307">> THEN Str("dot")
    ELSE IF acc_val = <<"U+0308">> THEN Str("ddot")
    ELSE IF acc_val = <<"U+20D7">> THEN Str("vec")
    ELSE Str("hat")

parse_acc(el) ==
    LET chr_elem == FindPath(el, "accPr", "chr")
        base     == ParseFound(Find(el, "e"), el.tag)
    IN  IF chr_elem # <<>>
        THEN Str("\\") \o AccentOf(GetVal(chr_elem, <<>>)) \o Str("{") \o base \o Str("}")
        ELSE Str("\\hat{") \o base \o Str("}")

\* one branch of parse_eqArr, already stripped
FormatPart(part) ==
    LET commas == {i \in 1..Len(part) : part[i] = ","}
        first  == Min(commas)
        value  == Strip(SubSeq(part, 1, first - 1))
        cond0  == Strip(SubSeq(part, first + 1, Len(part)))
        cond   == IF StartsWith(cond0, Str("&"))
                  THEN Strip(SubSeq(cond0, 2, Len(cond0))) ELSE cond0
    IN  IF commas = {} THEN part
        ELSE IF cond = <<>> THEN value
        ELSE IF Contains(cond, Str("odd")) \/ Contains(cond, Str("even"))
        THEN value \o Str(", & \\text{") \o cond \o Str("}")
        ELSE value \o Str(", & ") \o cond

parse_eqArr(el) ==
    LET go[n \in 0..Len(el.kids)] ==
            IF n = 0 THEN <<>>
            ELSE IF ~TagEndsWith(el.kids[n].tag, "e") THEN go[n - 1]
            ELSE Let(Strip(parse(el.kids[n], el.tag)),
                     LAMBDA part :
                         IF part = <<>> THEN go[n - 1]
                         ELSE Append(go[n - 1], FormatPart(part)))
    IN  Let(go[Len(el.kids)], LAMBDA parts : Join(parts, Str(" \\\\ ")))

\* parse: handler = getattr(self, f'parse_{tag}', self.parse_default)
parse(elem0, parentTag) ==
    Let(elem0,
        LAMBDA el :
            CASE el.tag = "oMath"     -> parse_oMath(el)
              [] el.tag = "oMathPara" -> parse_oMathPara(el)
              [] el.tag = "r"         -> parse_r(el)
              [] el.tag = "f"         -> parse_f(el, parentTag)
              [] el.tag = "sSup"      -> parse_sSup(el)
              [] el.tag = "sSub"      -> parse_sSub(el)
              [] el.tag = "sSubSup"   -> parse_sSubSup(el)
              [] el.tag = "nary"      -> parse_nary(el)
              [] el.tag = "rad"       -> parse_rad(el)
              [] el.tag = "d"         -> parse_d(el)
              [] el.tag = "matrix"    -> parse_matrix(el, Str("pmatrix"))
              [] el.tag = "m"         -> parse_m(el)
              [] el.tag = "func"      -> parse_func(el)
              [] el.tag \in {"limLow", "limUpp"} -> parse_limLow(el)
              [] el.tag = "acc"       -> parse_acc(el)
              [] el.tag = "eqArr"     -> parse_eqArr(el)
              [] el.tag = "e"         -> parse_e(el)
              [] OTHER                -> parse_default(el))

(***************************************************************************)
(* The calls a handler makes: the elements it hands to parse, each with    *)
(* the tag of its parent element                                           *)
(***************************************************************************)
\* a found element <<e>> as a call, its parent being el
Callee(found, el) ==
    IF found = <<>> THEN <<>> ELSE <<[el |-> found[1], par |-> el.tag]>>

\* for child in elem: self.parse(child)
KidCalls(el) == [i \in 1..Len(el.kids) |-> [el |-> el.kids[i], par |-> el.tag]]

\* the cells parse_matrix converts: the m:e children of the m:mr children
RECURSIVE CellCalls(_, _)
CellCalls(m, n) ==
    IF n = 0 THEN <<>>
    ELSE CellCalls(m, n - 1)
         \o (IF TagEndsWith(m.kids[n].tag, "mr")
             THEN SelectSeq(KidCalls(m.kids[n]), LAMBDA c : TagEndsWith(c.el.tag, "e"))
             ELSE <<>>)

MatrixCalls(m) == CellCalls(m, Len(m.kids))

Callees(el) ==
    CASE el.tag = "r" -> <<>>
      [] el.tag = "f" -> FirstDesc(el, "num") \o FirstDesc(el, "den")
      [] el.tag = "sSup" -> Callee(Find(el, "e"), el) \o Callee(Find(el, "sup"), el)
      [] el.tag = "sSub" -> Callee(Find(el, "e"), el) \o Callee(Find(el, "sub"), el)
      [] el.tag = "sSubSup" ->
            Callee(Find(el, "e"), el) \o Callee(Find(el, "sub"), el)
                \o Callee(Find(el, "sup"), el)
      [] el.tag = "nary" ->
            Callee(Find(el, "sub"), el) \o Callee(Find(el, "sup"), el)
                \o Callee(Find(el, "e"), el)
      [] el.tag = "rad" ->
            Callee(Find(el, "e"), el)
                \o (IF DegHideOf(el) # <<>> /\ DegHideOf(el)[1].val = <<Str("1")>>
                    THEN <<>> ELSE Callee(Find(el, "deg"), el))
      [] el.tag = "d" ->
            LET e_children == SelectSeq(el.kids, LAMBDA k : TagEndsWith(k.tag, "e"))
                first_e    == e_children[1]
                special    == SpecialOperand(first_e)
            IN  IF e_children = <<>> THEN <<>>
                ELSE IF special # <<>> /\ TagEndsWith(special[1].tag, "m")
                THEN MatrixCalls(special[1])
                ELSE IF special # <<>> THEN Callee(special, first_e)
                ELSE Callee(<<first_e>>, el)
      [] el.tag \in {"m", "matrix"} -> MatrixCalls(el)
      [] el.tag = "func" -> Callee(Find(el, "fName"), el) \o Callee(Find(el, "e"), el)
      [] el.tag \in {"limLow", "limUpp"} ->
            Callee(Find(el, "e"), el) \o Callee(Find(el, "lim"), el)
      [] el.tag = "acc" -> Callee(Find(el, "e"), el)
      [] el.tag = "eqArr" ->
            SelectSeq(KidCalls(el), LAMBDA c : TagEndsWith(c.el.tag, "e"))
      [] OTHER -> KidCalls(el)

\* the strings the handler of el itself hands to clean_output, in order
CleanedBy(el) ==
    CASE el.tag = "oMath" -> <<ComposeChildren(el)>>
      [] el.tag = "sSup" ->
            Let(DedupBase(ParseFound(Find(el, "e"), el.tag)),
                LAMBDA base : IF HasComplexMarker(base) THEN <<>> ELSE <<base>>)
      [] el.tag \in {"sSub", "sSubSup"} -> <<ParseFound(Find(el, "e"), el.tag)>>
      [] OTHER -> <<>>

(***************************************************************************)
(* Input expressions: elements as Word writes them                         *)
(***************************************************************************)
\* m:f with its properties, numerator and denominator
F(num, den) == El("f", <<El("fPr", <<>>), El("num", num), El("den", den)>>)

SSup(e, sup) == El("sSup", <<El("e", e), El("sup", sup)>>)

SSub(e, sub) == El("sSub", <<El("e", e), El("sub", sub)>>)

SSubSup(e, sub, sup) == El("sSubSup", <<El("e", e), El("sub", sub), El("sup", sup)>>)

\* m:d with the properties prs (m:begChr, m:endChr) and one operand
D(prs, e) == El("d", <<El("dPr", prs), El("e", e)>>)

\* m:rad with the properties prs (m:degHide), deg = <<>> or <<the m:deg child>>
Rad(prs, deg, e) == El("rad", <<El("radPr", prs)>> \o deg \o <<El("e", e)>>)

\* m:m of rows of cells, each cell a sequence of elements
Mx(rows) ==
    El("m", <<El("mPr", <<>>)>>
            \o [i \in 1..Len(rows) |->
                   El("mr", [j \in 1..Len(rows[i]) |-> El("e", rows[i][j])])])

\* m:nary with the properties prs (m:chr) and limits subsup (m:sub, m:sup)
Nary(prs, subsup, e) == El("nary", <<El("naryPr", prs)>> \o subsup \o <<El("e", e)>>)

Func(fName, e) == El("func", <<El("fName", fName), El("e", e)>>)

LimLow(e, lim) == El("limLow", <<El("e", e), El("lim", lim)>>)

Acc(prs, e) == El("acc", <<El("accPr", prs), El("e", e)>>)

EqArr(rows) == El("eqArr", [i \in 1..Len(rows) |-> El("e", rows[i])])

\* an element without a handler of its own, such as m:box
Box(e) == El("box", <<El("e", e)>>)

\* the texts of the runs, the first NumTexts of them in use
RunTexts ==
    <<Str("n"), Str("k"), Str("1"), Str("2"), Str("x"), Str("a+b"), Str("lim")>>

NumTexts == 5

Leaves == {R(RunTexts[i]) : i \in 1..Min({NumTexts, Len(RunTexts)})}

\* m:dPr contents: no characters, each matched pair, an opening brace alone,
\* the pair of a half-open interval
DelimPrs ==
    {<<>>,
     <<Pr("begChr", Str("(")), Pr("endChr", Str("]"))>>,
     <<Pr("begChr", Str("(")), Pr("endChr", Str(")"))>>,
     <<Pr("begChr", Str("[")), Pr("endChr", Str("]"))>>,
     <<Pr("begChr", Str("{")), Pr("endChr", Str("}"))>>,
     <<Pr("begChr", Str("|")), Pr("endChr", Str("|"))>>,
     <<Pr("begChr", Str("{")), Pr("endChr", <<>>)>>}

\* m:radPr contents and the m:deg child
HidePrs == {<<>>, <<Pr("degHide", Str("1"))>>, <<Pr("degHide", Str("0"))>>}

Degs == {<<>>, <<El("deg", <<>>)>>, <<El("deg", <<R(Str("3"))>>)>>}

Fracs(X) ==
    {F(<<a>>, <<b>>) : a \in X, b \in X}
        \cup {El("f", <<El("num", <<a>>)>>) : a \in X}
        \cup {El("f", <<El("den", <<a>>)>>) : a \in X}

Rads(X) == {Rad(h, g, <<a>>) : h \in HidePrs, g \in Degs, a \in X}

Delims(X) == {D(p, <<a>>) : p \in DelimPrs, a \in X}

Matrices(X) ==
    {Mx(<<<<(<<a>>)>>>>) : a \in X}
        \cup {Mx(<<<<(<<a>>), (<<R(Str("2"))>>)>>, <<(<<>>), (<<a>>)>>>>) : a \in X}

Scripts(X) ==
    {SSup(<<a>>, <<R(Str("2"))>>) : a \in X}
        \cup {SSub(<<a>>, <<R(Str("1"))>>) : a \in X}
        \cup {SSubSup(<<a>>, <<R(Str("1"))>>, <<R(Str("2"))>>) : a \in X}

Operators(X) ==
    {Nary(<<>>, <<>>, <<a>>) : a \in X}
        \cup {Nary(<<Pr("chr", <<"U+2211">>)>>,
                   <<El("sub", <<R(Str("1"))>>), El("sup", <<a>>)>>,
                   <<R(Str("x"))>>) : a \in X}
        \cup {Func(<<R(Str("sin"))>>, <<a>>) : a \in X}
        \cup {Func(<<LimLow(<<R(Str("lim"))>>, <<a>>)>>, <<R(Str("x"))>>) : a \in X}
        \cup {Acc(<<>>, <<a>>) : a \in X}
        \cup {Acc(<<Pr("chr", <<"U+20D7">>)>>, <<a>>) : a \in X}
        \cup {EqArr(<<(<<a>>), (<<R(Str("1, x"))>>)>>) : a \in X}
        \cup {Box(<<a>>) : a \in X}
        \cup {El("oMathPara", <<a>>) : a \in X}

\* elements whose tag is not one Word writes for a structure above: two
\* children under m:borderBox, and the tag matrix with and without a row
Unrecognized(X) ==
    {El("borderBox", <<a, R(Str("2"))>>) : a \in X}
        \cup {El("matrix", <<a>>) : a \in X}
        \cup {El("matrix", <<El("mr", <<El("e", <<a>>)>>)>>) : a \in X}

\* structures over runs
Simple ==
    Fracs(Leaves) \cup Rads(Leaves) \cup Delims(Leaves) \cup Matrices(Leaves)
        \cup Scripts(Leaves) \cup Operators(Leaves) \cup Unrecognized(Leaves)

\* a run of three integrals, as one m:t text
Integrals ==
    R(<<"U+222B", "x", "U+222B", "y", "U+222B", "z">>)

\* the runs nested structures are built on
Pivots == {R(RunTexts[1]), R(RunTexts[2])}

\* structures whose operand is a structure
Nested ==
    Delims({F(<<a>>, <<b>>) : a \in Leaves, b \in Leaves})
        \cup {F(<<f>>, <<a>>) : f \in Fracs(Pivots), a \in Pivots}
        \cup {F(<<a>>, <<f>>) : f \in Fracs(Pivots), a \in Pivots}
        \cup {Box(<<f>>) : f \in Fracs(Pivots)}
        \cup Rads(Rads({R(Str("x"))}))
        \cup Delims(Matrices(Pivots \cup Delims({R(Str("x"))})))
        \cup Delims({EqArr(<<(<<a>>), (<<R(Str("1, x"))>>)>>) : a \in Pivots})
        \cup Scripts(Delims(Pivots))
        \cup Scripts({R(Str("a+b")), R(Str("xy"))})
        \cup Delims(Delims({R(Str("x"))}))
        \cup {D(<<>>, <<R(Str("2")), Mx(<<<<(<<R(Str("x"))>>)>>>>)>>),
              D(<<>>, <<EqArr(<<(<<R(Str("n"))>>), (<<R(Str("1, x"))>>)>>), R(Str("k"))>>),
              El("d", <<El("dPr", <<>>), El("e", <<R(Str("n"))>>),
                        El("e", <<R(Str("k"))>>)>>)}
        \cup Scripts({D(<<Pr("begChr", Str("[")), Pr("endChr", Str("]"))>>, <<a>>) :
                         a \in {Integrals, R(<<"U+222B", "x", "U+222B", "y">>)}})

\* a superscript whose base is a subscript node: the bases are a run, a
\* parenthesised run and a bracketed run of integrals, the exponents a run
\* and a delimiter group
NestedScripts ==
    {SSup(<<SSub(<<b>>, <<R(Str("1"))>>)>>, <<p>>) :
        b \in {R(Str("x")), D(<<>>, <<R(Str("n"))>>),
               D(<<Pr("begChr", Str("[")), Pr("endChr", Str("]"))>>, <<Integrals>>)},
        p \in {R(Str("2")), D(<<>>, <<R(Str("n"))>>)}}

\* the limit of g as n varies
Lim(g) == Func(<<LimLow(<<R(Str("lim"))>>, <<R(Str("n"))>>)>>, g)

\* function applications whose name is a limit with a lower bound: over a
\* delimiter group, a fraction and a limit (an iterated limit), over no
\* argument, and with the base max in place of lim; limits whose run holds a
\* space, a minus sign or a digit before lim
Limits ==
    {Lim(<<g>>) : g \in {D(<<>>, <<R(Str("x"))>>), F(<<R(Str("1"))>>, <<R(Str("n"))>>),
                         Func(<<LimLow(<<R(Str("lim"))>>, <<R(Str("k"))>>)>>,
                              <<R(Str("x"))>>)}}
        \cup {Lim(<<>>),
              El("func", <<El("fName", <<LimLow(<<R(Str("lim"))>>, <<R(Str("n"))>>)>>)>>),
              Func(<<LimLow(<<R(Str("max"))>>, <<R(Str("n"))>>)>>, <<R(Str("x"))>>)}
        \cup {LimLow(<<R(p \o Str("lim"))>>, <<R(Str("n"))>>) :
                 p \in {Str(" "), Str("-"), Str("2 ")}}

\* the names of the function table
TableNames == {FUNCTION_NAMES[i][1] : i \in 1..Len(FUNCTION_NAMES)}

\* function applications whose name is a run: each table name and a letter
\* over a run, over a delimiter group and over no argument, an empty name
\* part over a run, and the name sin after a space, a minus sign and a digit
\* in its run
Functions ==
    {Func(<<R(t)>>, <<a>>) :
        t \in TableNames \cup {Str("g")},
        a \in {R(Str("x")), D(<<>>, <<R(Str("x"))>>)}}
        \cup {El("func", <<El("fName", <<R(t)>>)>>) : t \in TableNames \cup {Str("g")}}
        \cup {Func(<<>>, <<R(Str("x"))>>)}
        \cup {Func(<<R(p \o Str("sin"))>>, <<R(Str("x"))>>) :
                 p \in {Str(" "), Str("-"), Str("2 "), Str("2")}}

\* the tags of the handlers that read named children
Structures ==
    {"f", "sSup", "sSub", "sSubSup", "nary", "rad", "d", "m", "func",
     "limLow", "acc", "eqArr"}

\* structures with children missing: none at all, one of two, and a fraction
\* with one operand missing and a fraction inside the other
Incomplete ==
    {El(t, <<>>) : t \in Structures}
        \cup {El(t, <<El(c, <<a>>)>>) :
                  t \in {"sSup", "sSub", "sSubSup", "func", "limLow", "rad", "acc"},
                  c \in {"e", "sub", "sup", "fName", "lim", "deg"},
                  a \in Pivots}
        \cup {El("f", <<El(c, <<f>>)>>) : c \in {"num", "den"}, f \in Fracs(Pivots)}
        \cup {El("d", <<El("dPr", p)>>) : p \in DelimPrs}
        \cup {El("m", <<El("mr", <<>>)>>), El("eqArr", <<El("e", <<>>)>>)}

\* the root elements handed to parse: one structure each, and the products
\* u(x)v(b) of an identifier and a parenthesised run twice
InputTrees ==
    {El("oMath", <<a>>) :
        a \in Leaves \cup Simple \cup Nested \cup Incomplete \cup NestedScripts
                 \cup Limits \cup Functions}
        \cup {El("oMath", <<R(u), D(<<>>, <<R(Str("x"))>>), R(v), D(<<>>, <<b>>)>>) :
                 u \in {Str("u"), Str("v")}, v \in {Str("u"), Str("v")},
                 b \in {R(Str("x")), R(Str("y"))}}

(***************************************************************************)
(* Converting one expression.  elem is the root handed to parse; cur is    *)
(* the call parse is working on (an element and its parent's tag), ret the *)
(* string that call returned, latex the text parse_oMath is building.      *)
(* After a call has returned, the walk looks into one of the calls its     *)
(* handler made.                                                           *)
(***************************************************************************)
Init ==
    /\ elem \in InputTrees
    /\ cur = [el |-> elem, par |-> "none"]
    /\ ret = <<>>
    /\ latex = <<>>
    /\ text = <<>>
    /\ prev = <<>>
    /\ pc = "call"

\* parse_oMath, first statement: the children's results joined
oMath_compose ==
    /\ pc = "call"
    /\ cur.el.tag = "oMath"
    /\ latex' = ComposeChildren(cur.el)
    /\ pc' = "clean"
    /\ UNCHANGED <<elem, cur, ret, text, prev>>

\* parse_oMath, second statement
oMath_clean ==
    /\ pc = "clean"
    /\ latex' = clean_output(latex)
    /\ pc' = "post"
    /\ UNCHANGED <<elem, cur, ret, text, prev>>

\* parse_oMath, the return statement
oMath_post ==
    /\ pc = "post"
    /\ latex' = apply_post_processing(latex)
    /\ ret' = latex'
    /\ pc' = "return"
    /\ UNCHANGED <<elem, cur, text, prev>>

\* the tags parse finds a handler for
Handled ==
    {"oMath", "oMathPara", "r", "f", "sSup", "sSub", "sSubSup", "nary", "rad",
     "d", "matrix", "m", "func", "limLow", "limUpp", "acc", "eqArr", "e"}

\* the tags of the node kinds the converter has a rule for; parse_matrix is
\* the helper of parse_d and parse_m, not the rule of a tag
Vocabulary == Handled \ {"matrix"}

\* One action per handler: parse(cur) finds the handler parse_<tag> by the
\* element's tag and returns what it returns.
Do_oMathPara ==
    /\ pc = "call"
    /\ cur.el.tag = "oMathPara"
    /\ ret' = parse(cur.el, cur.par)
    /\ pc' = "return"
    /\ UNCHANGED <<elem, cur, latex, text, prev>>

Do_r ==
    /\ pc = "call"
    /\ cur.el.tag = "r"
    /\ ret' = parse(cur.el, cur.par)
    /\ pc' = "return"
    /\ UNCHANGED <<elem, cur, latex, text, prev>>

Do_f ==
    /\ pc = "call"
    /\ cur.el.tag = "f"
    /\ ret' = parse(cur.el, cur.par)
    /\ pc' = "return"
    /\ UNCHANGED <<elem, cur, latex, text, prev>>

Do_sSup ==
    /\ pc = "call"
    /\ cur.el.tag = "sSup"
    /\ ret' = parse(cur.el, cur.par)
    /\ pc' = "return"
    /\ UNCHANGED <<elem, cur, latex, text, prev>>

Do_sSub ==
    /\ pc = "call"
    /\ cur.el.tag = "sSub"
    /\ ret' = parse(cur.el, cur.par)
    /\ pc' = "return"
    /\ UNCHANGED <<elem, cur, latex, text, prev>>

Do_sSubSup ==
    /\ pc = "call"
    /\ cur.el.tag = "sSubSup"
    /\ ret' = parse(cur.el, cur.par)
    /\ pc' = "return"
    /\ UNCHANGED <<elem, cur, latex, text, prev>>

Do_nary ==
    /\ pc = "call"
    /\ cur.el.tag = "nary"
    /\ ret' = parse(cur.el, cur.par)
    /\ pc' = "return"
    /\ UNCHANGED <<elem, cur, latex, text, prev>>

Do_rad ==
    /\ pc = "call"
    /\ cur.el.tag = "rad"
    /\ ret' = parse(cur.el, cur.par)
    /\ pc' = "return"
    /\ UNCHANGED <<elem, cur, latex, text, prev>>

Do_d ==
    /\ pc = "call"
    /\ cur.el.tag = "d"
    /\ ret' = parse(cur.el, cur.par)
    /\ pc' = "return"
    /\ UNCHANGED <<elem, cur, latex, text, prev>>

Do_m ==
    /\ pc = "call"
    /\ cur.el.tag = "m"
    /\ ret' = parse(cur.el, cur.par)
    /\ pc' = "return"
    /\ UNCHANGED <<elem, cur, latex, text, prev>>

\* the tag matrix: getattr finds the method parse_matrix, called with its
\* default matrix_type
Do_matrix ==
    /\ pc = "call"
    /\ cur.el.tag = "matrix"
    /\ ret' = parse(cur.el, cur.par)
    /\ pc' = "return"
    /\ UNCHANGED <<elem, cur, latex, text, prev>>

Do_func ==
    /\ pc = "call"
    /\ cur.el.tag = "func"
    /\ ret' = parse(cur.el, cur.par)
    /\ pc' = "return"
    /\ UNCHANGED <<elem, cur, latex, text, prev>>

Do_limLow ==
    /\ pc = "call"
    /\ cur.el.tag \in {"limLow", "limUpp"}
    /\ ret' = parse(cur.el, cur.par)
    /\ pc' = "return"
    /\ UNCHANGED <<elem, cur, latex, text, prev>>

Do_acc ==
    /\ pc = "call"
    /\ cur.el.tag = "acc"
    /\ ret' = parse(cur.el, cur.par)
    /\ pc' = "return"
    /\ UNCHANGED <<elem, cur, latex, text, prev>>

Do_eqArr ==
    /\ pc = "call"
    /\ cur.el.tag = "eqArr"
    /\ ret' = parse(cur.el, cur.par)
    /\ pc' = "return"
    /\ UNCHANGED <<elem, cur, latex, text, prev>>

Do_e ==
    /\ pc = "call"
    /\ cur.el.tag = "e"
    /\ ret' = parse(cur.el, cur.par)
    /\ pc' = "return"
    /\ UNCHANGED <<elem, cur, latex, text, prev>>

\* no handler of that name: parse_default
Do_default ==
    /\ pc = "call"
    /\ cur.el.tag \notin Handled
    /\ ret' = parse(cur.el, cur.par)
    /\ pc' = "return"
    /\ UNCHANGED <<elem, cur, latex, text, prev>>

\* one of the calls the handler of cur made
Descend ==
    /\ pc = "return"
    /\ \E i \in 1..Len(Callees(cur.el)) : cur' = Callees(cur.el)[i]
    /\ ret' = <<>>
    /\ pc' = "call"
    /\ UNCHANGED <<elem, latex, text, prev>>

Next ==
    \/ oMath_compose \/ oMath_clean \/ oMath_post
    \/ Do_oMathPara \/ Do_r \/ Do_f \/ Do_sSup \/ Do_sSub \/ Do_sSubSup
    \/ Do_nary \/ Do_rad \/ Do_d \/ Do_m \/ Do_matrix \/ Do_func \/ Do_limLow \/ Do_acc
    \/ Do_eqArr \/ Do_e \/ Do_default
    \/ Descend

Spec == Init /\ [][Next]_vars

(***************************************************************************)
(* The normalization pass on its own: clean_output then                    *)
(* apply_post_processing, run twice over one string.  text is the string   *)
(* given, prev the result of the first pass, latex the working string.     *)
(***************************************************************************)
\* the strings over the characters S of length at most n
Strings(S, n) == UNION {[1..k -> S] : k \in 0..n}

NormChars == {"{", "}", "a", "^"}

MaxLen == 5

\* what parse_oMath composes for the input expressions, and short strings
NormInputs ==
    Strings(NormChars, MaxLen) \cup {ComposeChildren(t) : t \in InputTrees}

InitNorm ==
    /\ text \in NormInputs
    /\ latex = text
    /\ prev = <<>>
    /\ elem = El("oMath", <<>>)
    /\ cur = [el |-> elem, par |-> "none"]
    /\ ret = <<>>
    /\ pc = "clean1"

Norm_clean ==
    /\ pc \in {"clean1", "clean2"}
    /\ latex' = clean_output(latex)
    /\ pc' = IF pc = "clean1" THEN "post1" ELSE "post2"
    /\ UNCHANGED <<elem, cur, ret, text, prev>>

Norm_post ==
    /\ pc \in {"post1", "post2"}
    /\ latex' = apply_post_processing(latex)
    /\ prev' = IF pc = "post1" THEN latex' ELSE prev
    /\ pc' = IF pc = "post1" THEN "clean2" ELSE "done"
    /\ UNCHANGED <<elem, cur, ret, text>>

NextNorm == Norm_clean \/ Norm_post

SpecNorm == InitNorm /\ [][NextNorm]_vars

(***************************************************************************)
(* parse_r on its own, statement by statement.  text is the run's text,    *)
(* latex the working text, prev the text handed to smart_symbol_convert.   *)
(***************************************************************************)
BeforeChars == {"x"}

AfterChars == {"x", "i", "m"}

MaxBefore == 1

MaxAfter == 2

\* one glyph of the symbol table between short texts
RunInputs ==
    {b \o <<g>> \o a : b \in Strings(BeforeChars, MaxBefore),
                       g \in DOMAIN MATH_SYMBOLS,
                       a \in Strings(AfterChars, MaxAfter)}

InitRun ==
    /\ text \in RunInputs
    /\ elem = R(text)
    /\ cur = [el |-> elem, par |-> "e"]
    /\ latex = text
    /\ prev = <<>>
    /\ ret = <<>>
    /\ pc = "prepare"

\* the minus sign and the differentials
Run_prepare ==
    /\ pc = "prepare"
    /\ latex' = RunPrepare(latex)
    /\ pc' = "symbols"
    /\ UNCHANGED <<elem, cur, ret, text, prev>>

Run_symbols ==
    /\ pc = "symbols"
    /\ prev' = latex
    /\ latex' = smart_symbol_convert(latex)
    /\ pc' = "greek"
    /\ UNCHANGED <<elem, cur, ret, text>>

Run_greek ==
    /\ pc = "greek"
    /\ latex' = GreekSpacing(latex)
    /\ pc' = "functions"
    /\ UNCHANGED <<elem, cur, ret, text, prev>>

Run_functions ==
    /\ pc = "functions"
    /\ latex' = convert_function_names(latex)
    /\ ret' = latex'
    /\ pc' = "return"
    /\ UNCHANGED <<elem, cur, text, prev>>

NextRun == Run_prepare \/ Run_symbols \/ Run_greek \/ Run_functions

SpecRun == InitRun /\ [][NextRun]_vars

(***************************************************************************)
(* Several workers converting at once.  Each worker w calls parse on the   *)
(* root elem[w] through the converter instance cur[w].self, which workers  *)
(* may share, and runs the statements of parse_oMath one at a time, the    *)
(* other workers' statements in between.  prev holds the fields of the     *)
(* converter instances, text the module's two tables; latex holds the      *)
(* local variable latex of each call's frame, pc[w] and ret[w] the         *)
(* position and the result of w's call.                                    *)
(***************************************************************************)
NumWorkers == 2

Workers == 1..NumWorkers

NumInstances == 2

Instances == 1..NumInstances

\* the fields of a converter after __init__
NewConverter ==
    [ns |-> [m |-> "http://schemas.openxmlformats.org/officeDocument/2006/math",
             w |-> "http://schemas.openxmlformats.org/wordprocessingml/2006/main"]]

\* the module's tables
Tables == [MATH_SYMBOLS |-> MATH_SYMBOLS, FUNCTION_NAMES |-> FUNCTION_NAMES]

\* the roots the workers convert
WorkerTrees ==
    {El("oMath", <<a>>) :
        a \in {SSup(<<R(Str("x"))>>, <<R(Str("2"))>>),
               D(<<>>, <<F(<<R(Str("n"))>>, <<R(Str("k"))>>)>>),
               Func(<<R(Str("sin"))>>, <<R(<<"U+03B3", "x">>)>>)}}

\* one frame of parse_oMath with all the calls in it, as if latex were kept
\* on the instance
FrameOf_shared(w) == 1

\* the frame of worker w's call of parse_oMath, which holds its local latex:
\* a frame of its own for every call
FrameOf(w) == w

InitWorkers ==
    /\ elem \in [Workers -> WorkerTrees]
    /\ \E self \in [Workers -> Instances] :
           cur = [w \in Workers |-> [el |-> elem[w], par |-> "none", self |-> self[w]]]
    /\ prev = [i \in Instances |-> NewConverter]
    /\ text = Tables
    /\ latex = [w \in Workers |-> <<>>]
    /\ ret = [w \in Workers |-> <<>>]
    /\ pc = [w \in Workers |-> "call"]

\* parse_oMath, first statement, in some worker w
Worker_compose ==
    \E w \in Workers :
        /\ pc[w] = "call"
        /\ latex' = [latex EXCEPT ![FrameOf(w)] = ComposeChildren(cur[w].el)]
        /\ pc' = [pc EXCEPT ![w] = "clean"]
        /\ UNCHANGED <<elem, cur, ret, text, prev>>

\* parse_oMath, second statement, in some worker w
Worker_clean ==
    \E w \in Workers :
        /\ pc[w] = "clean"
        /\ latex' = [latex EXCEPT ![FrameOf(w)] = clean_output(latex[FrameOf(w)])]
        /\ pc' = [pc EXCEPT ![w] = "post"]
        /\ UNCHANGED <<elem, cur, ret, text, prev>>

\* parse_oMath, the return statement, in some worker w
Worker_post ==
    \E w \in Workers :
        /\ pc[w] = "post"
        /\ latex' = [latex EXCEPT ![FrameOf(w)] =
                                     apply_post_processing(latex[FrameOf(w)])]
        /\ ret' = [ret EXCEPT ![w] = latex'[FrameOf(w)]]
        /\ pc' = [pc EXCEPT ![w] = "return"]
        /\ UNCHANGED <<elem, cur, text, prev>>

NextWorkers == Worker_compose \/ Worker_clean \/ Worker_post

SpecWorkers == InitWorkers /\ [][NextWorkers]_vars

(***************************************************************************)
(* The batch loop of process_word_document over the equations of one       *)
(* document.  elem is the list equations, cur.i the loop index and cur.el  *)
(* the equation at hand, ret the list results, text and latex the locals   *)
(* of the loop body; pc tells whether the loop runs, the function has      *)
(* returned results, or an exception has left it.                          *)
(***************************************************************************)
\* a comment node among the children of an element: lxml yields it when the
\* children are iterated, and its tag is not a str
Comment == El("#comment", <<>>)

\* the elements whose tag a handler tests with tag.endswith on its own,
\* besides those it hands to parse
TagTested(el) ==
    CASE el.tag = "d" ->
            LET e_children == SelectSeq(el.kids, LAMBDA k : TagEndsWith(k.tag, "e"))
                g == e_children[1].kids
                special == {i \in 1..Len(g) : TagEndsWith(g[i].tag, "m")
                                                 \/ TagEndsWith(g[i].tag, "eqArr")}
            IN  el.kids \o (IF e_children = <<>> THEN <<>>
                            ELSE IF special = {} THEN g
                            ELSE SubSeq(g, 1, Min(special)))
      [] el.tag \in {"m", "matrix"} ->
            LET go[n \in 0..Len(el.kids)] ==
                    IF n = 0 THEN <<>>
                    ELSE go[n - 1] \o (IF TagEndsWith(el.kids[n].tag, "mr")
                                       THEN el.kids[n].kids ELSE <<>>)
            IN  el.kids \o go[Len(el.kids)]
      [] el.tag = "eqArr" -> el.kids
      [] OTHER -> <<>>

\* parse(el) raises: '}' in elem.tag and tag.endswith fail on a tag that is
\* not a str, and an exception of a callee passes through the handler
RECURSIVE Raises(_)
Raises(el) ==
    \/ el = Comment
    \/ \E i \in 1..Len(TagTested(el)) : TagTested(el)[i] = Comment
    \/ \E i \in 1..Len(Callees(el)) : Raises(Callees(el)[i].el)

\* ''.join(eq.xpath('.//m:t/text()'))
TextOf(eq) ==
    LET d == Descendants(eq)
        go[n \in 0..Len(d)] == IF n = 0 THEN <<>> ELSE go[n - 1] \o d[n].el.text
    IN  go[Len(d)]

MaxEquations == 3

\* the equations of the documents: three that convert, and two with a
\* comment node, one at the root and one inside a delimiter group
BatchTrees ==
    WorkerTrees
        \cup {El("oMath", <<R(Str("x")), Comment>>),
              El("oMath", <<D(<<>>, <<Comment, R(Str("y"))>>)>>)}

InitBatch ==
    /\ elem \in UNION {[1..n -> BatchTrees] : n \in 0..MaxEquations}
    /\ cur = [el |-> IF elem = <<>> THEN El("oMath", <<>>) ELSE elem[1],
              par |-> "none", i |-> 1]
    /\ ret = <<>>
    /\ latex = <<>>
    /\ text = <<>>
    /\ prev = <<>>
    /\ pc = "loop"

\* the position of the loop after equation i
NextEquation(i) ==
    [el |-> IF i < Len(elem) THEN elem[i + 1] ELSE El("oMath", <<>>),
     par |-> "none", i |-> i + 1]

\* one pass of the loop body in which parser.parse(eq) returns
Batch_convert ==
    /\ pc = "loop"
    /\ cur.i <= Len(elem)
    /\ ~Raises(cur.el)
    /\ text' = TextOf(cur.el)
    /\ latex' = parse(cur.el, cur.par)
    /\ ret' = Append(ret, [index |-> cur.i, text |-> text', latex |-> latex'])
    /\ cur' = NextEquation(cur.i)
    /\ UNCHANGED <<elem, prev, pc>>

\* one pass of the loop body in which parser.parse(eq) raises: nothing in
\* process_word_document or main catches, the exception leaves the function
Batch_raise ==
    /\ pc = "loop"
    /\ cur.i <= Len(elem)
    /\ Raises(cur.el)
    /\ text' = TextOf(cur.el)
    /\ pc' = "raise"
    /\ UNCHANGED <<elem, cur, ret, latex, prev>>

\* the loop is over: return results
Batch_return ==
    /\ pc = "loop"
    /\ cur.i > Len(elem)
    /\ pc' = "return"
    /\ UNCHANGED <<elem, cur, ret, latex, text, prev>>

NextBatch == Batch_convert \/ Batch_raise \/ Batch_return

SpecBatch == InitBatch /\ [][NextBatch]_vars

(***************************************************************************)
(* Properties                                                              *)
(***************************************************************************)
\* C1: converting the root expression whose only content is the fraction
\* with numerator "1" and denominator "2" returns exactly \frac{1}{2}.
C1_FractionHalf ==
    (/\ pc = "return" /\ cur.el = elem
     /\ elem = El("oMath", <<F(<<R(Str("1"))>>, <<R(Str("2"))>>)>>))
        => ret = Str("\\frac{1}{2}")

\* C2 as stated: converting the root expression whose only content is the
\* superscript with base "x" and exponent "2" returns exactly x^{2}, the
\* exponent keeping its brace group.
C2_SuperscriptBraced ==
    (/\ pc = "return" /\ cur.el = elem
     /\ elem = El("oMath", <<SSup(<<R(Str("x"))>>, <<R(Str("2"))>>)>>))
        => ret = Str("x^{2}")

\* C2 amended: converting the root expression whose only content is the
\* superscript with base "x" and exponent "2" returns exactly x^2; the root
\* normalization strips the braces around the single-character exponent.
C2_SuperscriptBare ==
    (/\ pc = "return" /\ cur.el = elem
     /\ elem = El("oMath", <<SSup(<<R(Str("x"))>>, <<R(Str("2"))>>)>>))
        => ret = Str("x^2")

\* C2 witness: parse has returned for the root holding that superscript,
\* whose handler returned x^{2} before the root normalization
C2_Witness ==
    /\ pc = "return" /\ cur.el = elem
    /\ elem = El("oMath", <<SSup(<<R(Str("x"))>>, <<R(Str("2"))>>)>>)
    /\ parse(elem.kids[1], "oMath") = Str("x^{2}")

\* C3: converting the root expression whose only content is a delimiter
\* group with the default parentheses around the fraction n over k returns
\* exactly \binom{n}{k}, with no \left( .. \right) around it.
C3_BinomialUnwrapped ==
    (/\ pc = "return" /\ cur.el = elem
     /\ elem = El("oMath", <<D(<<>>, <<F(<<R(Str("n"))>>, <<R(Str("k"))>>)>>)>>))
        => /\ ret = Str("\\binom{n}{k}")
           /\ ~Contains(ret, Str("\\left")) /\ ~Contains(ret, Str("\\right"))

\* C3 witness: parse has returned for that root, whose delimiter group
\* returned the binomial inside \left( .. \right)
C3_Witness ==
    /\ pc = "return" /\ cur.el = elem
    /\ elem = El("oMath", <<D(<<>>, <<F(<<R(Str("n"))>>, <<R(Str("k"))>>)>>)>>)
    /\ parse(elem.kids[1], "oMath") = Str("\\left(\\binom{n}{k}\\right)")

\* C4: for every fraction node the handler returns \frac{N}{D} or
\* \binom{N}{D}, N and D the stripped conversions of the node's numerator
\* and denominator (empty when missing); \binom exactly when N and D are
\* single alphabetic characters and (N, D) is (n, k) or the node's parent is
\* a delimiter group, \frac in every other case.
C4_FractionForm ==
    (pc = "return" /\ cur.el.tag = "f") =>
        LET num == Strip(ParseFound(Find(cur.el, "num"), "f"))
            den == Strip(ParseFound(Find(cur.el, "den"), "f"))
            binomial ==
                /\ Len(num) = 1 /\ Len(den) = 1
                /\ IsAlpha(num[1]) /\ IsAlpha(den[1])
                /\ (num = Str("n") /\ den = Str("k")) \/ cur.par = "d"
        IN  ret = (IF binomial THEN Str("\\binom{") ELSE Str("\\frac{"))
                      \o num \o Str("}{") \o den \o Str("}")

\* C5: a fraction whose numerator and denominator are single alphabetic
\* characters other than the pair n, k and which is the operand of a
\* delimiter group with parentheses is rendered \binom{num}{den}, not \frac.
C5_BinomialInParentheses ==
    (/\ pc = "return" /\ cur.el.tag = "d") =>
        \A p \in {<<>>, <<Pr("begChr", Str("(")), Pr("endChr", Str(")"))>>} :
            \A a \in Letter, b \in Letter :
                (/\ <<a, b>> # <<"n", "k">>
                 /\ cur.el = D(p, <<F(<<R(<<a>>)>>, <<R(<<b>>)>>)>>))
                    => /\ Contains(ret, Str("\\binom{") \o <<a>> \o Str("}{")
                                            \o <<b>> \o Str("}"))
                       /\ ~Contains(ret, Str("\\frac"))

\* C6: for every radical node: with its degree child present and its own
\* degree-hidden attribute not set the handler returns
\* \sqrt[<converted degree>]{<operand>}; with the degree child absent or its
\* own attribute set it returns \sqrt{<operand>}; radicals nested inside the
\* operand have no part in the decision.
C6_RadicalForm ==
    (pc = "return" /\ cur.el.tag = "rad") =>
        LET radPr   == Find(cur.el, "radPr")
            ownHide == IF radPr = <<>> THEN <<>> ELSE Find(radPr[1], "degHide")
            hidden  == ownHide # <<>> /\ ownHide[1].val = <<Str("1")>>
            deg     == Find(cur.el, "deg")
            operand == ParseFound(Find(cur.el, "e"), "rad")
        IN  IF deg # <<>> /\ ~hidden
            THEN ret = Str("\\sqrt[") \o parse(deg[1], "rad") \o Str("]{")
                           \o operand \o Str("}")
            ELSE ret = Str("\\sqrt{") \o operand \o Str("}")

\* C7: for every delimiter group whose operand is a matrix with a non-empty
\* cell the environment of the output is decided by the group's own
\* delimiter characters: [ gives bmatrix, { Bmatrix, | vmatrix, parentheses
\* or no attribute pmatrix; a matrix that parse converts outside a delimiter
\* group uses the environment matrix.
C7_MatrixEnvironment ==
    /\ (pc = "return" /\ cur.el.tag = "d" /\ Find(cur.el, "e") # <<>>) =>
          LET operand == SpecialOperand(Find(cur.el, "e")[1])
              dPr     == Find(cur.el, "dPr")
              begChr  == IF dPr = <<>> THEN <<>> ELSE Find(dPr[1], "begChr")
              open_d  == IF begChr = <<>> THEN Str("(") ELSE GetVal(begChr, Str("("))
              env     == IF open_d = Str("[") THEN Str("bmatrix")
                         ELSE IF open_d = Str("{") THEN Str("Bmatrix")
                         ELSE IF open_d = Str("|") THEN Str("vmatrix")
                         ELSE Str("pmatrix")
          IN  (/\ operand # <<>> /\ operand[1].tag = "m"
               /\ parse_matrix(operand[1], Str("matrix")) # <<>>)
                  => StartsWith(ret, Str("\\begin{") \o env \o Str("}"))
    /\ (pc = "return" /\ cur.el.tag = "m" /\ ret # <<>>) =>
          StartsWith(ret, Str("\\begin{matrix}"))

\* C8: the normalization pass is idempotent: clean_output followed by
\* apply_post_processing, applied to a string it has already normalized,
\* returns that string unchanged, N(N(s)) = N(s).
C8_NormalizerIdempotent == pc = "done" => latex = prev

\* C9: for every run whose text contains a glyph of the symbol table, what
\* the run handler returns contains the command mapped to that glyph and no
\* occurrence of the glyph.
C9_GlyphsReplaced ==
    (pc = "return" /\ cur.el.tag = "r" /\ cur.el = R(text)) =>
        \A i \in 1..Len(text) :
            text[i] \in DOMAIN MATH_SYMBOLS =>
                /\ Contains(ret, MATH_SYMBOLS[text[i]])
                /\ \A j \in 1..Len(ret) : ret[j] # text[i]

\* C10: in the symbol substitution every glyph of the table that is
\* followed in the text by an alphabetic character is replaced by its
\* command and a separating space, so that no substituted command touches
\* the letter after it; the other glyphs are replaced by their command.
C10_SpaceAfterCommand ==
    pc = "greek" =>
        LET mlen(t, i) == IF t[i] \in DOMAIN MATH_SYMBOLS THEN 1 ELSE 0
            rep(t, i, n) ==
                IF i < Len(t) /\ IsAlpha(t[i + 1])
                THEN MATH_SYMBOLS[t[i]] \o <<" ">>
                ELSE MATH_SYMBOLS[t[i]]
        IN  latex = ReSub(prev, mlen, rep)

\* C11: an n-ary operator node without an operator-character attribute of
\* its own is rendered with \sum; a node that carries one, for a glyph of the
\* symbol table, is rendered with the command of that glyph.
C11_NaryOperator ==
    (pc = "return" /\ cur.el.tag = "nary") =>
        LET naryPr == Find(cur.el, "naryPr")
            chr    == IF naryPr = <<>> THEN <<>> ELSE Find(naryPr[1], "chr")
        IN  IF chr = <<>> \/ chr[1].val = <<>>
            THEN StartsWith(ret, Str("\\sum"))
            ELSE (Len(chr[1].val[1]) = 1 /\ chr[1].val[1][1] \in DOMAIN MATH_SYMBOLS)
                     => StartsWith(ret, MATH_SYMBOLS[chr[1].val[1][1]])

\* C12: for every node whose tag is not one of the recognized kinds, parse
\* returns the concatenation, in child order, of what parse returns for each
\* of its children.
C12_UnrecognizedFallback ==
    (pc = "return" /\ cur.el.tag \notin Vocabulary) =>
        LET kids == cur.el.kids
            cat[n \in 0..Len(kids)] ==
                IF n = 0 THEN <<>> ELSE cat[n - 1] \o parse(kids[n], cur.el.tag)
        IN  ret = cat[Len(kids)]

\* C13: every handler of a structure returns a string when sub-nodes it
\* expects are missing, and a missing sub-node contributes the empty string:
\* the output is the handler's form with nothing in the place of that
\* sub-node (a delimiter group, matrix or equation array without operand
\* returns the empty string, a function without name its argument).
C13_MissingSubNodes ==
    pc = "return" =>
        LET el       == cur.el
            has(t)   == Find(el, t) # <<>>
            conv(t)  == ParseFound(Find(el, t), el.tag)
            ends(lit) == At(ret, Len(ret) - Len(lit) + 1, lit)
        IN  /\ DOMAIN ret = 1..Len(ret)
            /\ (el.tag = "f" /\ (~has("num") \/ ~has("den"))) =>
                  ret = Str("\\frac{") \o Strip(conv("num")) \o Str("}{")
                            \o Strip(conv("den")) \o Str("}")
            /\ (el.tag = "sSup" /\ ~has("e")) =>
                  ret = Str("^{") \o conv("sup") \o Str("}")
            /\ (el.tag = "sSup" /\ ~has("sup")) => ends(Str("^{}"))
            /\ (el.tag = "sSub" /\ ~has("e")) =>
                  ret = Str("_{") \o conv("sub") \o Str("}")
            /\ (el.tag = "sSub" /\ ~has("sub")) => ends(Str("_{}"))
            /\ (el.tag = "sSubSup" /\ ~has("e")) =>
                  ret = Str("_{") \o conv("sub") \o Str("}^{") \o conv("sup") \o Str("}")
            /\ (el.tag = "sSubSup" /\ ~has("sub") /\ ~has("sup")) => ends(Str("_{}^{}"))
            /\ (el.tag = "nary" /\ ~has("sub") /\ ~has("sup") /\ ~has("e")) =>
                  /\ StartsWith(ret, Str("\\"))
                  /\ \A i \in 1..Len(ret) : ret[i] \notin {"_", "^", "{", " "}
            /\ (el.tag = "rad" /\ ~has("e")) => ends(Str("{}"))
            /\ (el.tag = "rad" /\ ~has("deg")) =>
                  ret = Str("\\sqrt{") \o conv("e") \o Str("}")
            /\ (el.tag \in {"d", "eqArr"} /\ ~has("e")) => ret = <<>>
            /\ (el.tag = "m" /\ ~has("mr")) => ret = <<>>
            /\ (el.tag = "func" /\ ~has("fName")) => ret = conv("e")
            /\ (el.tag = "limLow" /\ ~has("e")) =>
                  ret = Str("_{") \o conv("lim") \o Str("}")
            /\ (el.tag = "limLow" /\ ~has("lim")) => ends(Str("_{}"))
            /\ (el.tag = "acc" /\ ~has("e")) => ends(Str("{}"))

\* C14: during the conversion of one expression clean_output is invoked
\* exactly once, by the root on its fully composed string; no handler of a
\* sub-expression applies it to an intermediate string.
C14_CleanOnlyAtRoot ==
    pc = "return" =>
        CleanedBy(cur.el) = IF cur.el = elem THEN <<ComposeChildren(elem)>> ELSE <<>>

\* C15: in the superscript, subscript and combined handlers a converted base
\* that is not a bare single token (one character, or one command name) is
\* emitted inside a brace group before the ^ or _ marker; a single-token base
\* is emitted bare.  A base that is one \left .. \right group delimits
\* itself and is not judged.
C15_BaseBraced ==
    (/\ pc = "return" /\ cur.el.tag \in {"sSup", "sSub", "sSubSup"}
     /\ Find(cur.el, "e") # <<>>) =>
        LET base   == ParseFound(Find(cur.el, "e"), cur.el.tag)
            marker == IF cur.el.tag = "sSup" THEN Str("^{") ELSE Str("_{")
            token  == \/ Len(base) = 1
                      \/ /\ Len(base) >= 2 /\ base[1] = "\\"
                         /\ \A i \in 2..Len(base) : base[i] \in Letter
            group  == /\ StartsWith(base, Str("\\left"))
                      /\ Count(base, Str("\\left")) = 1
                      /\ Count(base, Str("\\right")) = 1
        IN  (base # <<>> /\ ~group) =>
                IF token THEN StartsWith(ret, base \o marker)
                ELSE StartsWith(ret, <<"{">> \o base \o <<"}">> \o marker)

\* C16: for a root holding a superscript node whose base is the subscript
\* node (b, s), with exponent p, the output has the same shape (the same
\* string once the brace group around a single-character script is dropped)
\* as the combined sub+superscript node (b, s, p) and as ^{p} appended to the
\* conversion of the subscript node: base, _ subscript, ^ superscript.
C16_ScriptNesting ==
    (/\ pc = "return" /\ cur.el = elem
     /\ Len(elem.kids) = 1 /\ elem.kids[1].tag = "sSup"
     /\ Find(elem.kids[1], "e") # <<>> /\ Find(elem.kids[1], "sup") # <<>>
     /\ Len(Find(elem.kids[1], "e")[1].kids) = 1
     /\ Find(elem.kids[1], "e")[1].kids[1].tag = "sSub") =>
        LET outer == elem.kids[1]
            inner == Find(outer, "e")[1].kids[1]
            b     == IF Find(inner, "e") = <<>> THEN <<>> ELSE Find(inner, "e")[1].kids
            sb    == IF Find(inner, "sub") = <<>> THEN <<>> ELSE Find(inner, "sub")[1].kids
            p     == Find(outer, "sup")[1]
            mlen(t, i) == IF /\ i + 3 <= Len(t) /\ t[i] \in {"_", "^"}
                             /\ t[i + 1] = "{" /\ t[i + 2] \in Alnum /\ t[i + 3] = "}"
                          THEN 4 ELSE 0
            drop(t, i, n) == <<t[i], t[i + 2]>>
            shape(t) == ReSub(t, mlen, drop)
            combined == parse(El("oMath", <<SSubSup(b, sb, p.kids)>>), "none")
            appended == Normalize(parse(inner, "e") \o Str("^{")
                                      \o parse(p, "sSup") \o Str("}"))
        IN  /\ shape(ret) = shape(combined)
            /\ shape(ret) = shape(appended)

\* C17: a delimiter group with an operand that is neither a matrix nor an
\* equation array between an opening brace and no closing glyph returns the
\* converted operand between its resolved delimiters: \left and \right for
\* ( ), [ ], { } and | |, the glyphs themselves for any other pair. An
\* equation array between any other pair is wrapped like any operand.
C17_DelimiterWrapped ==
    (/\ pc = "return" /\ cur.el.tag = "d"
     /\ SelectSeq(cur.el.kids, LAMBDA k : TagEndsWith(k.tag, "e")) # <<>>) =>
        LET first_e == SelectSeq(cur.el.kids, LAMBDA k : TagEndsWith(k.tag, "e"))[1]
            operand == SpecialOperand(first_e)
            open_d  == OpenOf(cur.el)
            close_d == CloseOf(cur.el)
            matrix  == operand # <<>> /\ TagEndsWith(operand[1].tag, "m")
            cases   == /\ operand # <<>> /\ TagEndsWith(operand[1].tag, "eqArr")
                       /\ open_d = Str("{") /\ close_d = <<>>
            inner   == parse(first_e, "d")
            scalable == <<open_d, close_d>> \in
                            {<<Str("("), Str(")")>>, <<Str("["), Str("]")>>,
                             <<Str("{"), Str("}")>>, <<Str("|"), Str("|")>>}
            esc(g)  == IF g \in {Str("{"), Str("}")} THEN <<"\\">> \o g ELSE g
        IN  (~matrix /\ ~cases) =>
                ret = IF scalable
                      THEN Str("\\left") \o esc(open_d) \o inner
                               \o Str("\\right") \o esc(close_d)
                      ELSE open_d \o inner \o close_d

\* C18: a function application whose name part holds a limit with a lower
\* bound returns the converted name part, \lim_{<converted bound>} when the
\* name part is that limit alone over the run lim, followed by a space and
\* the converted argument when that is not empty, and by nothing otherwise;
\* the argument is never put in parentheses.
C18_LimitFunction ==
    (/\ pc = "return" /\ cur.el.tag = "func"
     /\ Find(cur.el, "fName") # <<>>
     /\ FindDesc(Find(cur.el, "fName")[1], "limLow") # <<>>) =>
        LET fName  == Find(cur.el, "fName")[1]
            limLow == fName.kids[1]
            plain  == /\ Len(fName.kids) = 1 /\ limLow.tag = "limLow"
                      /\ Find(limLow, "e") # <<>>
                      /\ Find(limLow, "e")[1].kids = <<R(Str("lim"))>>
            name   == IF plain
                      THEN Str("\\lim_{") \o ParseFound(Find(limLow, "lim"), "limLow")
                               \o Str("}")
                      ELSE parse(fName, "func")
            arg    == ParseFound(Find(cur.el, "e"), "func")
        IN  ret = IF arg # <<>> THEN name \o <<" ">> \o arg ELSE name

\* C19 as stated: a function application without a limit sub-structure whose
\* name part is a run holding a table name returns the table's command
\* followed by the converted argument in parentheses (a non-empty argument);
\* one whose name part is missing, empty or a run holding no table name
\* returns the converted argument alone.
C19_FunctionParenthesised ==
    (/\ pc = "return" /\ cur.el.tag = "func"
     /\ \/ Find(cur.el, "fName") = <<>>
        \/ Find(cur.el, "fName")[1].kids = <<>>
        \/ /\ Len(Find(cur.el, "fName")[1].kids) = 1
           /\ Find(cur.el, "fName")[1].kids[1].tag = "r") =>
        LET fName == Find(cur.el, "fName")
            run   == IF fName = <<>> \/ fName[1].kids = <<>> THEN <<>>
                     ELSE fName[1].kids[1].text
            arg   == ParseFound(Find(cur.el, "e"), "func")
        IN  IF run \in TableNames
            THEN arg # <<>> => ret = <<"\\">> \o run \o Str("(") \o arg \o Str(")")
            ELSE (\A t \in TableNames : ~Contains(run, t)) => ret = arg

\* C19, amended: a function application without a limit sub-structure whose
\* name part is a run holding a table name returns the table's command,
\* followed by the converted argument in parentheses, or after a space and
\* without parentheses when the name is lim, or by nothing when the argument
\* is empty; a name part that is a run holding a single letter is kept in
\* place of the command; with a missing or empty name part the handler
\* returns the converted argument alone.
C19_FunctionApplication ==
    (/\ pc = "return" /\ cur.el.tag = "func"
     /\ \/ Find(cur.el, "fName") = <<>>
        \/ Find(cur.el, "fName")[1].kids = <<>>
        \/ /\ Len(Find(cur.el, "fName")[1].kids) = 1
           /\ Find(cur.el, "fName")[1].kids[1].tag = "r") =>
        LET fName == Find(cur.el, "fName")
            run   == IF fName = <<>> \/ fName[1].kids = <<>> THEN <<>>
                     ELSE fName[1].kids[1].text
            arg   == ParseFound(Find(cur.el, "e"), "func")
            name  == IF run \in TableNames THEN <<"\\">> \o run ELSE run
        IN  (\/ run \in TableNames \/ run = <<>>
             \/ (Len(run) = 1 /\ run[1] \in Lower \cup Upper)) =>
                ret = IF run = <<>> THEN arg
                      ELSE IF arg = <<>> THEN name
                      ELSE IF run = Str("lim") THEN name \o <<" ">> \o arg
                      ELSE name \o Str("(") \o arg \o Str(")")

\* C19 witness: the handler has returned for lim over the run x, with a
\* space and no parentheses
C19_Witness ==
    /\ pc = "return"
    /\ cur.el = Func(<<R(Str("lim"))>>, <<R(Str("x"))>>)
    /\ ret = Str("\\lim x")

\* C20: with any workers converting at once, each through its own or a
\* shared converter instance, every call that has returned has returned
\* what converting its tree alone returns, and the symbol and function
\* tables and the fields of every converter instance are as they were.
C20_Stateless ==
    /\ text = Tables
    /\ prev = [i \in Instances |-> NewConverter]
    /\ \A w \in Workers : pc[w] = "return" => ret[w] = parse(elem[w], "none")

\* C20 witness: two workers have returned from calls through one shared
\* instance, on different trees, with different results
C20_Witness ==
    \E v, w \in Workers :
        /\ v # w
        /\ cur[v].self = cur[w].self
        /\ pc[v] = "return" /\ pc[w] = "return"
        /\ elem[v] # elem[w]
        /\ ret[v] = Str("x^2")
        /\ ret[w] = Str("\\binom{n}{k}")

\* C21: when the batch loop is over, by return or by an exception, every
\* equation of the document whose conversion does not fail has its entry in
\* results, holding its conversion under the index of its 1-based position,
\* and the entries are in document order.
C21_BatchContinues ==
    pc \in {"return", "raise"} =>
        /\ \A j \in 1..Len(elem) :
              ~Raises(elem[j]) =>
                  \E k \in 1..Len(ret) :
                      ret[k].index = j /\ ret[k].latex = parse(elem[j], "none")
        /\ \A k \in 1..Len(ret) : \A l \in 1..Len(ret) :
              k < l => ret[k].index < ret[l].index

\* C22: when parse_oMath has cleaned a composed string without complex
\* markers, every brace group around a single alphanumeric character that
\* directly follows a command name (a backslash and one or more letters) is
\* still there: the cleaned string has at least as many such groups as the
\* composed string.
C22_CommandBracesKept ==
    (pc = "post" /\ ~HasComplexMarker(ComposeChildren(elem))) =>
        LET name(t, i, k) == /\ i - k - 1 >= 1 /\ t[i - k - 1] = "\\"
                             /\ \A j \in (i - k)..(i - 1) : t[j] \in Letter
            kept(t) == {i \in 1..Len(t) :
                           /\ i + 2 <= Len(t) /\ t[i] = "{"
                           /\ t[i + 1] \in Alnum /\ t[i + 2] = "}"
                           /\ \E k \in 1..i : name(t, i, k)}
        IN  Cardinality(kept(latex)) >= Cardinality(kept(ComposeChildren(elem)))

\* C23: a fraction node with a numerator and a denominator child of its own
\* returns a string that ends with the two brace groups holding the stripped
\* conversions of those two children, whatever fractions they contain.
C23_OwnOperands ==
    (/\ pc = "return" /\ cur.el.tag = "f"
     /\ Find(cur.el, "num") # <<>> /\ Find(cur.el, "den") # <<>>) =>
        LET own == Str("{") \o Strip(parse(Find(cur.el, "num")[1], "f"))
                       \o Str("}{") \o Strip(parse(Find(cur.el, "den")[1], "f"))
                       \o Str("}")
        IN  /\ Len(ret) >= Len(own)
            /\ SubSeq(ret, Len(ret) - Len(own) + 1, Len(ret)) = own

\* C24: a delimiter group whose operand is neither a matrix nor an equation
\* array returns the converted operand between the delimiters of its own
\* m:dPr, parentheses where its own m:dPr names no character, whatever the
\* characters of the groups nested in the operand.
C24_OwnDelimiters ==
    (/\ pc = "return" /\ cur.el.tag = "d"
     /\ SelectSeq(cur.el.kids, LAMBDA k : TagEndsWith(k.tag, "e")) # <<>>) =>
        LET first_e == SelectSeq(cur.el.kids, LAMBDA k : TagEndsWith(k.tag, "e"))[1]
            dPr     == Find(cur.el, "dPr")
            own(t)  == IF dPr = <<>> THEN <<>> ELSE Find(dPr[1], t)
            open_d  == IF own("begChr") = <<>> THEN Str("(")
                       ELSE GetVal(own("begChr"), Str("("))
            close_d == IF own("endChr") = <<>> THEN Str(")")
                       ELSE GetVal(own("endChr"), Str(")"))
        IN  SpecialOperand(first_e) = <<>> =>
                ret = Delimited(open_d, parse(first_e, "d"), close_d)

\* C25: the superscript handler returns its base followed by ^{sup}.  When
\* the converted base starts with \left[ and holds more than two \int, that
\* base is well-formed: one \left[ at its start, \right] at its end, and as
\* many \left as \right; in every other case it is the converted base,
\* cleaned when it holds no complex marker.
C25_GuardWellFormed ==
    (pc = "return" /\ cur.el.tag = "sSup" /\ Find(cur.el, "e") # <<>>) =>
        LET converted == parse(Find(cur.el, "e")[1], "sSup")
            script == Str("^{") \o ParseFound(Find(cur.el, "sup"), "sSup") \o Str("}")
            base   == SubSeq(ret, 1, Len(ret) - Len(script))
            fires  == /\ StartsWith(converted, Str("\\left["))
                      /\ Count(converted, Str("\\int")) > 2
        IN  /\ Len(ret) >= Len(script)
            /\ SubSeq(ret, Len(ret) - Len(script) + 1, Len(ret)) = script
            /\ IF fires
               THEN /\ StartsWith(base, Str("\\left["))
                    /\ Count(base, Str("\\left[")) = 1
                    /\ At(base, Len(base) - 6, Str("\\right]"))
                    /\ Count(base, Str("\\left")) = Count(base, Str("\\right"))
               ELSE base = IF HasComplexMarker(converted) THEN converted
                           ELSE clean_output(converted)

\* C26: a matrix with at least one cell returns, inside its environment,
\* one row per m:mr joined by the row separator and in each row one cell per
\* m:e joined by the column separator, a cell that converts to the empty
\* string included.
C26_MatrixShape ==
    (/\ pc = "return" /\ cur.el.tag = "m"
     /\ \E i \in 1..Len(cur.el.kids) :
            /\ cur.el.kids[i].tag = "mr"
            /\ \E j \in 1..Len(cur.el.kids[i].kids) : cur.el.kids[i].kids[j].tag = "e") =>
        LET mrs == SelectSeq(cur.el.kids, LAMBDA k : k.tag = "mr")
            cells(mr) == SelectSeq(mr.kids, LAMBDA k : k.tag = "e")
            row(mr) == Join([j \in 1..Len(cells(mr)) |-> parse(cells(mr)[j], "mr")],
                            Str(" & "))
        IN  ret = Str("\\begin{matrix} ")
                      \o Join([i \in 1..Len(mrs) |-> row(mrs[i])], Str(" \\\\ "))
                      \o Str(" \\end{matrix}")

\* C27: the root output is balanced: reading from the left, the braces not
\* escaped by a backslash never close more groups than were opened and all
\* are closed at the end, and there are as many \left as \right commands.
\* (No text run of the input expressions holds a brace.)
C27_Balanced ==
    (pc = "return" /\ cur.el = elem) =>
        LET brace(c) == {i \in 1..Len(ret) : ret[i] = c /\ (i = 1 \/ ret[i - 1] # "\\")}
            depth(n) == Cardinality({i \in brace("{") : i <= n})
                            - Cardinality({i \in brace("}") : i <= n})
            cmd(name) == {i \in 1..Len(ret) :
                             /\ At(ret, i, name)
                             /\ i + Len(name) > Len(ret) \/ ret[i + Len(name)] \notin Letter}
        IN  /\ \A n \in 1..Len(ret) : depth(n) >= 0
            /\ depth(Len(ret)) = 0
            /\ Cardinality(cmd(Str("\\left"))) = Cardinality(cmd(Str("\\right")))

\* C28: what a function application or a limit node returns never holds a
\* command of the function table after two backslashes, such as \\sin: a
\* name is substituted once along the chain of parse_r and the handler.
C28_SubstitutedOnce ==
    (pc = "return" /\ cur.el.tag \in {"func", "limLow", "limUpp"}) =>
        \A n \in 1..Len(FUNCTION_NAMES) :
            ~Contains(ret, <<"\\">> \o FUNCTION_NAMES[n][2])

\* C29: what a delimiter group returns holds the converted text of every
\* element of each of its operands (of a matrix operand, which is rendered
\* in the group's environment, the text of every cell).
C29_NothingDropped ==
    (pc = "return" /\ cur.el.tag = "d") =>
        \A i \in 1..Len(cur.el.kids) :
            cur.el.kids[i].tag = "e" =>
                \A j \in 1..Len(cur.el.kids[i].kids) :
                    LET g == cur.el.kids[i].kids[j]
                    IN  IF g.tag = "m"
                        THEN \A c \in 1..Len(MatrixCalls(g)) :
                                 Contains(ret, parse(MatrixCalls(g)[c].el, "mr"))
                        ELSE Contains(ret, parse(g, "e"))

\* C30: for a root whose children are runs and delimiter groups, the root
\* output holds each of the letters u, v, x, y (none of them a letter of the
\* words left and right) at least as often as there are runs holding it: an
\* identifier that stands before and after a parenthesised group is there
\* twice.
C30_IdentifierKept ==
    (/\ pc = "return" /\ cur.el = elem /\ Len(elem.kids) > 1
     /\ \A i \in 1..Len(elem.kids) : elem.kids[i].tag \in {"r", "d"}) =>
        \A i \in 1..Len(elem.kids) :
            LET c == elem.kids[i].text
            IN  (/\ elem.kids[i].tag = "r" /\ Len(c) = 1
                 /\ c[1] \in {"u", "v", "x", "y"}) =>
                    Cardinality({n \in 1..Len(ret) : ret[n] = c[1]})
                        >= Cardinality({j \in 1..Len(elem.kids) : elem.kids[j] = elem.kids[i]})

====
